---------------------------- MODULE Spec2Model ----------------------------
(***************************************************************************)
(* Anchor propagation of ufo2ft (Lib/ufo2ft/filters/propagateAnchors.py):  *)
(* the PropagateAnchorsFilter run over a font, as a state machine (Spec),  *)
(* and the mark feature writer that reads the propagated anchors           *)
(* (Lib/ufo2ft/featureWriters/markFeatureWriter.py), as a second state     *)
(* machine (WriterSpec).                                                   *)
(*                                                                         *)
(* Anchor names are Python strings.  They are modelled as sequences of     *)
(* one-character strings, so that the prefix test, the split at "_", the   *)
(* "%s_%d" renaming and the string order of sorted() are computed as the   *)
(* code computes them.                                                     *)
(***************************************************************************)
EXTENDS Integers, Sequences, FiniteSets

VARIABLES
    font,        \* the font as loaded: components, unicode, lib categories, anchors
    options,     \* the filter's options: attachments (explicit config), include
    anchors,     \* glyph.anchors of every glyph (the only part of the font mutated)
    context,     \* self.context: processed, attachments, modified
    todo,        \* included glyphs the loop of BaseFilter.__call__ has not visited
    stack,       \* the active calls of _propagate_glyph_anchors, innermost last
    phase,       \* "idle", "running", "done" or "failed"
    run,         \* number of the current run of the filter over the font
    error,       \* the exception that ended the run, "none" when there is none
    warnings,    \* the logged warnings, as <<component base glyph, glyph>>
    runStart,    \* anchors at the start of the current run
    firstRun,    \* anchors at the end of the first run
    lastFinish,  \* what the last finished composite was given (observation)
    ufo,         \* what the writer is given: ordered glyphs, Indic glyphs, todo
    feaFile,     \* the shared feature file: statements and markClasses
    writer       \* the writer's context and the step it is at

filterVars == <<font, options, anchors, context, todo, stack, phase, run, error,
                warnings, runStart, firstRun, lastFinish>>

writerVars == <<ufo, feaFile, writer>>

vars == <<filterVars, writerVars>>

---------------------------------------------------------------------------
(* Strings *)

\* The characters of anchor names in code-point order (digits < "_" < a-z).
Alphabet ==
    <<"0", "1", "2", "3", "4", "5", "6", "7", "8", "9", "_",
      "a", "b", "c", "d", "e", "f", "g", "h", "i", "j", "k", "l", "m",
      "n", "o", "p", "q", "r", "s", "t", "u", "v", "w", "x", "y", "z">>

CodeOrder ==
    [c \in {Alphabet[i] : i \in 1..Len(Alphabet)} |->
        CHOOSE i \in 1..Len(Alphabet) : Alphabet[i] = c]

Ord(c) == CodeOrder[c]

\* Python's s < t on strings.
StrLess(s, t) ==
    \E k \in 1..(Len(t)) :
        /\ k <= Len(s) + 1
        /\ \A j \in 1..(k - 1) : s[j] = t[j]
        /\ \/ k = Len(s) + 1
           \/ (k <= Len(s) /\ Ord(s[k]) < Ord(t[k]))

\* "%d" % n for n >= 0.
RECURSIVE Dec(_)
Dec(n) == IF n < 10 THEN <<Alphabet[n + 1]>>
          ELSE Dec(n \div 10) \o <<Alphabet[(n % 10) + 1]>>

\* str.find("_"): 0-based index of the first "_", -1 when there is none.
FindSep(s) ==
    IF \E k \in 1..Len(s) : s[k] = "_"
    THEN (CHOOSE k \in 1..Len(s) : s[k] = "_" /\ \A j \in 1..(k - 1) : s[j] # "_") - 1
    ELSE -1

\* str.rsplit("_", 1)[0]: the text before the last "_".
RSplitHead(s) ==
    IF \E k \in 1..Len(s) : s[k] = "_"
    THEN LET k == CHOOSE k \in 1..Len(s) :
                      s[k] = "_" /\ \A j \in (k + 1)..Len(s) : s[j] # "_"
         IN  SubSeq(s, 1, k - 1)
    ELSE s

---------------------------------------------------------------------------
(* Anchor names used by the fonts below *)

top == <<"t", "o", "p">>
bottom == <<"b", "o", "t", "t", "o", "m">>
topleft == top \o <<"l", "e", "f", "t">>
topright == top \o <<"r", "i", "g", "h", "t">>
bottomleft == bottom \o <<"l", "e", "f", "t">>
bottomright == bottom \o <<"r", "i", "g", "h", "t">>
Mark(name) == <<"_">> \o name
Sub(name, suffix) == name \o <<"_">> \o suffix
viet == <<"v", "i", "e", "t">>

Anchor(name, x, y) == [name |-> name, x |-> x, y |-> y]

VERTICAL_OPPOSITES ==
    {<<top, bottom>>, <<topleft, bottomleft>>, <<topright, bottomright>>,
     <<bottom, top>>, <<bottomleft, topleft>>, <<bottomright, topright>>}

HORIZONTAL_OPPOSITES ==
    {<<bottomleft, bottomright>>, <<bottomright, bottomleft>>,
     <<topleft, topright>>, <<topright, topleft>>}

\* d[name] and "name in d" for the two dicts above.
InDict(d, name) == \E p \in d : p[1] = name
Lookup(d, name) == (CHOOSE p \in d : p[1] = name)[2]

---------------------------------------------------------------------------
(* Sequences *)

Contains(s, e) == \E k \in 1..Len(s) : s[k] = e

\* list.remove(e): the list without the first element equal to e.
Remove(s, e) ==
    LET k == CHOOSE k \in 1..Len(s) : s[k] = e /\ \A j \in 1..(k - 1) : s[j] # e
    IN  SubSeq(s, 1, k - 1) \o SubSeq(s, k + 1, Len(s))

\* A list with e added behind its first p elements.
Insert(sorted, e, p) ==
    SubSeq(sorted, 1, p) \o <<e>> \o SubSeq(sorted, p + 1, Len(sorted))

RECURSIVE Flatten(_)
Flatten(ss) == IF ss = <<>> THEN <<>> ELSE Head(ss) \o Flatten(Tail(ss))

Range(s) == {s[k] : k \in 1..Len(s)}

NamesOf(anchorList) == {anchorList[k].name : k \in 1..Len(anchorList)}

---------------------------------------------------------------------------
(* Attachments *)

Attachment(base, mark) == [base |-> base, mark |-> mark]

\* re.match("^_", anchorName), the default markRE.
MarkAnchorName(anchorName) == Len(anchorName) >= 1 /\ anchorName[1] = "_"

\* A faulty AttachmentKey: a base name with a suffix is filed under itself, as
\* if "top_1" and "top" had nothing in common.
C7_Mutant_NoSuffixSplit(anchor_name) ==
    IF MarkAnchorName(anchor_name) THEN Tail(anchor_name) ELSE anchor_name

\* The key under which _collect_attachments files an anchor name.
AttachmentKey(anchor_name) ==
    IF MarkAnchorName(anchor_name) THEN Tail(anchor_name)
    ELSE IF FindSep(anchor_name) > 0 THEN RSplitHead(anchor_name)
    ELSE anchor_name

\* The attachments inferred from the anchor names of the font: one per key,
\* kept when it has a base name and a mark name.
InferredAttachments(anch) ==
    LET anchor_names == UNION {NamesOf(anch[g]) : g \in DOMAIN anch}
        keys == {AttachmentKey(n) : n \in anchor_names}
        at(key) == Attachment(
            {n \in anchor_names : ~MarkAnchorName(n) /\ AttachmentKey(n) = key},
            {n \in anchor_names : MarkAnchorName(n) /\ AttachmentKey(n) = key})
    IN  {at(key) : key \in {k \in keys : at(k).base # {} /\ at(k).mark # {}}}

\* A set of attachments in the order of its keys.  The code keeps the inferred
\* attachments in a set of objects; every name is filed under one key, so the
\* order of the set does not change what a lookup finds.
InKeyOrder(ats) ==
    LET KeyOf(at) == AttachmentKey(CHOOSE n \in at.base \cup at.mark : TRUE)
        s == CHOOSE s \in [1..Cardinality(ats) -> ats] :
                 \A i, j \in 1..Cardinality(ats) :
                     i < j => StrLess(KeyOf(s[i]), KeyOf(s[j]))
    IN  s

\* The orders in which the set built from the explicit records can iterate.
Orderings(config) ==
    {[k \in 1..Len(config) |-> config[p[k]]] :
        p \in {q \in [1..Len(config) -> 1..Len(config)] :
                  \A i, j \in 1..Len(config) : i # j => q[i] # q[j]}}

\* _collect_attachments: the sequences ctx.attachments can be.  An Attachment
\* is an object: it is identified by its position in the sequence.
CollectAttachments(opts, anch) ==
    IF opts.attachments # <<>>
    THEN Orderings([k \in 1..Len(opts.attachments) |->
                       Attachment(opts.attachments[k].base, opts.attachments[k].mark)])
    ELSE {InKeyOrder(InferredAttachments(anch))}

\* get_anchor_attachment: the position of the first attachment holding the
\* name, 0 for None.
GetAnchorAttachment(atts, name) ==
    IF \E k \in 1..Len(atts) : name \in atts[k].base \/ name \in atts[k].mark
    THEN CHOOSE k \in 1..Len(atts) :
            /\ name \in atts[k].base \/ name \in atts[k].mark
            /\ \A j \in 1..(k - 1) : ~(name \in atts[j].base \/ name \in atts[j].mark)
    ELSE 0

---------------------------------------------------------------------------
(* Glyph category *)

\* unicodeInCategories(uv, {"Mn", "Me"}) on the code points of the fonts below:
\* U+0302, U+0304, U+0308, U+032C and U+0331 are Mn.
UnicodeIsMark(uv) == uv \in {770, 772, 776, 812, 817}

\* A faulty get_glyph_category: the code point is consulted before the
\* category of the lib.
RECURSIVE C11_Mutant_UnicodeFirst(_, _, _, _)
C11_Mutant_UnicodeFirst(f, anch, atts, args) ==
    LET glyph == args.glyph
        path == args.path
        hasMarkAnchor == \E k \in 1..Len(anch[glyph]) :
            LET at == GetAnchorAttachment(atts, anch[glyph][k].name)
            IN  at # 0 /\ anch[glyph][k].name \in atts[at].mark
        comps == f.components[glyph]
        found == {i \in 1..Len(comps) : comps[i].baseGlyph \in DOMAIN anch}
        baseCategory(i) == C11_Mutant_UnicodeFirst(f, anch, atts,
            [glyph |-> comps[i].baseGlyph, path |-> path \cup {glyph}])
    IN  IF glyph \in path THEN "RecursionError"
        ELSE IF f.unicode[glyph] # 0
             THEN IF UnicodeIsMark(f.unicode[glyph]) THEN "mark" ELSE "base"
        ELSE IF f.categories[glyph] # "" THEN f.categories[glyph]
        ELSE IF hasMarkAnchor THEN "mark"
        ELSE IF comps # <<>>
             THEN IF \E i \in found : baseCategory(i) = "RecursionError"
                  THEN "RecursionError"
                  ELSE IF \A i \in found : baseCategory(i) \in {"", "mark"}
                       THEN "mark" ELSE ""
        ELSE ""

\* get_glyph_category.  path holds the glyphs whose call is still active: a call
\* for a glyph of path repeats that call without end and Python raises
\* RecursionError.  "" stands for None.
RECURSIVE GetGlyphCategory(_, _, _, _)
GetGlyphCategory(f, anch, atts, args) ==
    LET glyph == args.glyph
        path == args.path
        hasMarkAnchor == \E k \in 1..Len(anch[glyph]) :
            LET at == GetAnchorAttachment(atts, anch[glyph][k].name)
            IN  at # 0 /\ anch[glyph][k].name \in atts[at].mark
        comps == f.components[glyph]
        found == {i \in 1..Len(comps) : comps[i].baseGlyph \in DOMAIN anch}
        baseCategory(i) == GetGlyphCategory(f, anch, atts,
            [glyph |-> comps[i].baseGlyph, path |-> path \cup {glyph}])
    IN  IF glyph \in path THEN "RecursionError"
        ELSE IF f.categories[glyph] # "" THEN f.categories[glyph]
        ELSE IF f.unicode[glyph] # 0
             THEN IF UnicodeIsMark(f.unicode[glyph]) THEN "mark" ELSE "base"
        ELSE IF hasMarkAnchor THEN "mark"
        ELSE IF comps # <<>>
             THEN IF \E i \in found : baseCategory(i) = "RecursionError"
                  THEN "RecursionError"
                  ELSE IF \A i \in found : baseCategory(i) \in {"", "mark"}
                       THEN "mark" ELSE ""
        ELSE ""

---------------------------------------------------------------------------
(* Collecting the anchors of a component *)

Identity == <<1, 0, 0, 1, 0, 0>>

\* Transform(*t).transformPoint((x, y))
TransformPoint(t, x, y) == <<t[1] * x + t[3] * y + t[5], t[2] * x + t[4] * y + t[6]>>

\* A faulty FlippedName: the vertical flip renames too, to the vertical
\* opposite.
C13_Mutant_VerticalRename(t, name) ==
    IF t[1] < 0 /\ InDict(HORIZONTAL_OPPOSITES, name)
    THEN Lookup(HORIZONTAL_OPPOSITES, name)
    ELSE IF t[4] < 0 /\ InDict(VERTICAL_OPPOSITES, name)
    THEN Lookup(VERTICAL_OPPOSITES, name)
    ELSE name

\* The name an anchor takes in a component with transformation t: the
\* horizontal opposite in a horizontally flipped component.  The vertical
\* opposite is looked up and dropped.
FlippedName(t, name) ==
    IF t[1] < 0 /\ InDict(HORIZONTAL_OPPOSITES, name)
    THEN Lookup(HORIZONTAL_OPPOSITES, name)
    ELSE name

TransformedAnchor(t, a) ==
    LET xy == IF t # Identity THEN TransformPoint(t, a.x, a.y) ELSE <<a.x, a.y>>
    IN  Anchor(FlippedName(t, a.name), xy[1], xy[2])

\* The propagated anchors one component adds: the anchors its glyph has after
\* its own propagation, transformed.
ComponentAnchors(component, component_anchors, atts) ==
    LET component_is_mark ==
            \E k \in 1..Len(component_anchors) : MarkAnchorName(component_anchors[k].name)
    IN  [k \in 1..Len(component_anchors) |->
            LET anchor == TransformedAnchor(component.transformation, component_anchors[k])
            IN  [component |-> component,
                 component_is_mark |-> component_is_mark,
                 anchor |-> anchor,
                 attachment |-> GetAnchorAttachment(atts, anchor.name)]]

---------------------------------------------------------------------------
(* Pruning *)

\* The first pruning of _propagate_glyph_anchors: anchors without attachment
\* and anchors whose name the glyph already has.
PruneUndefinedAndLocal(propagated_anchors, glyph_anchor_names) ==
    SelectSeq(propagated_anchors,
              LAMBDA pa : pa.attachment # 0 /\ pa.anchor.name \notin glyph_anchor_names)

Distance(a, b) == (a.x - b.x) * (a.x - b.x) + (a.y - b.y) * (a.y - b.y)

\* A propagated anchor for which _prune_attached_anchors looks for a match.
IsAttachingMark(pa1, atts) ==
    pa1.anchor.name \in atts[pa1.attachment].mark /\ pa1.component_is_mark

\* The anchors pa2 the inner loop of _prune_attached_anchors does not skip.
IsCandidate(pa1, pa2, atts) ==
    /\ pa1 # pa2
    /\ pa1.attachment = pa2.attachment
    /\ pa2.anchor.name \in atts[pa1.attachment].base
    /\ pa1.component # pa2.component

\* Position of the matched anchor of pa1, 0 when nothing matches: the first of
\* the candidates at the least distance.
MatchOf(pa1, pas, atts) ==
    LET cand == {k \in 1..Len(pas) : IsCandidate(pa1, pas[k], atts)}
        d(k) == Distance(pa1.anchor, pas[k].anchor)
    IN  IF cand = {} THEN 0
        ELSE CHOOSE k \in cand : \A j \in cand : d(k) < d(j) \/ (d(k) = d(j) /\ k <= j)

\* matched_anchors, flattened: the matches (distance, pa1, pa2) in the order
\* of pa1.
Matches(pas, atts) ==
    LET hit == SelectSeq([k \in 1..Len(pas) |-> k],
                         LAMBDA k : /\ IsAttachingMark(pas[k], atts)
                                    /\ MatchOf(pas[k], pas, atts) # 0)
    IN  [i \in 1..Len(hit) |->
            LET pa1 == pas[hit[i]]
                pa2 == pas[MatchOf(pa1, pas, atts)]
            IN  [dist |-> Distance(pa1.anchor, pa2.anchor), pa1 |-> pa1, pa2 |-> pa2]]

\* sorted(matches, key=lambda t: t[0]): the sort is stable, so the last match
\* goes behind the sorted others that are not farther.
RECURSIVE SortByDistance(_)
SortByDistance(matches) ==
    IF matches = <<>> THEN <<>>
    ELSE LET sorted == SortByDistance(SubSeq(matches, 1, Len(matches) - 1))
             e == matches[Len(matches)]
         IN  Insert(sorted, e,
                    Cardinality({j \in 1..Len(sorted) : sorted[j].dist <= e.dist}))

\* The pairs the second loop removes, in its order: the dict is read in the
\* order in which the mark names were first met, each list sorted by distance,
\* and in mode "mark" the last pair of each list is left.
PairsToRemove(matches, mode) ==
    LET names == SelectSeq([i \in 1..Len(matches) |-> i],
                     LAMBDA i : \A j \in 1..(i - 1) :
                         matches[j].pa1.anchor.name # matches[i].pa1.anchor.name)
        group(i) ==
            LET ofName == SelectSeq(matches,
                              LAMBDA m : m.pa1.anchor.name = matches[i].pa1.anchor.name)
                byDist == SortByDistance(ofName)
            IN  IF mode = "mark" THEN SubSeq(byDist, 1, Len(byDist) - 1) ELSE byDist
    IN  Flatten([k \in 1..Len(names) |-> group(names[k])])

\* The removals of one pair: pa1, pa2 and the base anchors of pa2's component
\* and attachment.  list.remove of an element that is gone raises ValueError.
RECURSIVE RemovePairs(_, _, _)
RemovePairs(pas, pairs, atts) ==
    IF pairs = <<>> THEN [pas |-> pas, error |-> "none"]
    ELSE LET pa1 == Head(pairs).pa1
             pa2 == Head(pairs).pa2
         IN  IF ~Contains(pas, pa1) \/ ~Contains(Remove(pas, pa1), pa2)
             THEN [pas |-> pas, error |-> "ValueError"]
             ELSE RemovePairs(
                    SelectSeq(Remove(Remove(pas, pa1), pa2),
                        LAMBDA pa : ~(/\ pa.component = pa2.component
                                      /\ pa.anchor.name \in atts[pa2.attachment].base)),
                    Tail(pairs), atts)

\* A faulty PruneAttachedAnchors: no pair is removed.
C3_Mutant_NoPairPruning(propagated_anchors, mode, atts) ==
    [pas |-> propagated_anchors, error |-> "none"]

\* _prune_attached_anchors
PruneAttachedAnchors(propagated_anchors, mode, atts) ==
    RemovePairs(propagated_anchors,
                PairsToRemove(Matches(propagated_anchors, atts), mode), atts)

\* A faulty _prune_opposite_mark_anchors: the mark anchors stay.
C22_Mutant_MarkAnchorsKept(glyph_anchor_names, propagated_anchors, atts) ==
    LET opposites(pa) ==
            {Lookup(VERTICAL_OPPOSITES, n) :
                n \in {b \in atts[pa.attachment].base : InDict(VERTICAL_OPPOSITES, b)}}
            \cup
            {Lookup(HORIZONTAL_OPPOSITES, n) :
                n \in {b \in atts[pa.attachment].base : InDict(HORIZONTAL_OPPOSITES, b)}}
    IN  SelectSeq(propagated_anchors,
                  LAMBDA pa : \/ opposites(pa) \cap glyph_anchor_names = {}
                              \/ pa.anchor.name \in atts[pa.attachment].mark)

\* _prune_opposite_mark_anchors
PruneOppositeMarkAnchors(glyph_anchor_names, propagated_anchors, atts) ==
    LET opposites(pa) ==
            {Lookup(VERTICAL_OPPOSITES, n) :
                n \in {b \in atts[pa.attachment].base : InDict(VERTICAL_OPPOSITES, b)}}
            \cup
            {Lookup(HORIZONTAL_OPPOSITES, n) :
                n \in {b \in atts[pa.attachment].base : InDict(HORIZONTAL_OPPOSITES, b)}}
    IN  SelectSeq(propagated_anchors,
                  LAMBDA pa : opposites(pa) \cap glyph_anchor_names = {})

\* A faulty _prune_mark_anchors: the mark anchors stay.
C25_Mutant_MarkAnchorsStay(propagated_anchors, atts) == propagated_anchors

\* _prune_mark_anchors
PruneMarkAnchors(propagated_anchors, atts) ==
    SelectSeq(propagated_anchors,
              LAMBDA pa : pa.anchor.name \notin atts[pa.attachment].mark)

\* A faulty RenameCompositeLigatureAnchors: the count starts at 0.
C6_Mutant_ZeroBased(propagated_anchors) ==
    [k \in 1..Len(propagated_anchors) |->
        LET name == propagated_anchors[k].anchor.name
            i == Cardinality({j \in 1..(k - 1) : propagated_anchors[j].anchor.name = name})
        IN  [propagated_anchors[k] EXCEPT !.anchor.name = name \o <<"_">> \o Dec(i)]]

\* _rename_composite_ligature_anchors: "%s_%d" with the count of the name so far.
RenameCompositeLigatureAnchors(propagated_anchors) ==
    [k \in 1..Len(propagated_anchors) |->
        LET name == propagated_anchors[k].anchor.name
            i == Cardinality({j \in 1..k : propagated_anchors[j].anchor.name = name})
        IN  [propagated_anchors[k] EXCEPT !.anchor.name = name \o <<"_">> \o Dec(i)]]

\* The pruning of _propagate_glyph_anchors by glyph category, up to the
\* renaming of the ligature anchors.
Survivors(glyph_category, glyph_anchor_names, pas, atts) ==
    LET attached == PruneAttachedAnchors(pas, "", atts)
    IN  IF glyph_category = "base"
        THEN [attached EXCEPT !.pas = PruneMarkAnchors(@, atts)]
        ELSE IF glyph_category = "mark"
        THEN PruneAttachedAnchors(
                 PruneOppositeMarkAnchors(glyph_anchor_names, pas, atts), "mark", atts)
        ELSE IF glyph_category = "ligature"
        THEN [attached EXCEPT !.pas = PruneMarkAnchors(@, atts)]
        ELSE attached

\* The last step of the ligature branch.
Named(glyph_category, propagated_anchors) ==
    IF glyph_category = "ligature"
    THEN RenameCompositeLigatureAnchors(propagated_anchors)
    ELSE propagated_anchors

\* The key of the final sorted(): (name, x, y).
KeyLess(pa, pb) ==
    \/ StrLess(pa.anchor.name, pb.anchor.name)
    \/ /\ pa.anchor.name = pb.anchor.name
       /\ \/ pa.anchor.x < pb.anchor.x
          \/ (pa.anchor.x = pb.anchor.x /\ pa.anchor.y < pb.anchor.y)

\* A faulty SortPropagated: the anchors stay in the order of their collection.
C9_Mutant_Unsorted(propagated_anchors) == propagated_anchors

\* sorted(propagated_anchors, key=lambda pa: (pa.anchor.name, pa.anchor.x, pa.anchor.y))
RECURSIVE SortPropagated(_)
SortPropagated(propagated_anchors) ==
    IF propagated_anchors = <<>> THEN <<>>
    ELSE LET sorted == SortPropagated(
                           SubSeq(propagated_anchors, 1, Len(propagated_anchors) - 1))
             e == propagated_anchors[Len(propagated_anchors)]
         IN  Insert(sorted, e,
                    Cardinality({j \in 1..Len(sorted) : ~KeyLess(e, sorted[j])}))

\* The anchors appended to the glyph, in order.
AnchorsToAppend(propagated_anchors) ==
    LET s == SortPropagated(propagated_anchors)
    IN  [k \in 1..Len(s) |-> s[k].anchor]

\* A faulty AppendAnchors: the propagated anchors replace the glyph's own.
C4_Mutant_ReplaceAnchors(glyph_anchors, new) == new

\* glyph.appendAnchor for each of them.
AppendAnchors(glyph_anchors, new) == glyph_anchors \o new

---------------------------------------------------------------------------
(* Fonts *)

Glyph(name, glyph_anchors, glyph_components, unicode, category) ==
    [name |-> name, anchors |-> glyph_anchors, components |-> glyph_components,
     unicode |-> unicode, category |-> category]

Component(baseGlyph, transformation) ==
    [baseGlyph |-> baseGlyph, transformation |-> transformation]

Shift(dx, dy) == <<1, 0, 0, 1, dx, dy>>

\* The font made of a sequence of glyphs with distinct names.  unicode 0 is
\* "no code point", category "" is "not in public.openTypeCategories".
MakeFont(glyphs) ==
    LET names == {glyphs[k].name : k \in 1..Len(glyphs)}
        of(n) == glyphs[CHOOSE k \in 1..Len(glyphs) : glyphs[k].name = n]
    IN  [anchors |-> [n \in names |-> of(n).anchors],
         components |-> [n \in names |-> of(n).components],
         unicode |-> [n \in names |-> of(n).unicode],
         categories |-> [n \in names |-> of(n).category]]

\* The font of tests/filters/propagateAnchors_test.py.
TestFont ==
    MakeFont(<<
        Glyph("space", <<>>, <<>>, 0, ""),
        Glyph("a", <<Anchor(top, 175, 300), Anchor(bottom, 175, 0)>>, <<>>, 97, ""),
        Glyph("dieresiscomb", <<Anchor(Mark(top), 0, 300), Anchor(top, 0, 480)>>,
              <<>>, 776, ""),
        Glyph("dieresis", <<>>, <<Component("dieresiscomb", Shift(150, 0))>>, 168, ""),
        Glyph("macroncomb", <<Anchor(Mark(top), 0, 300), Anchor(top, 0, 480)>>,
              <<>>, 0, ""),
        Glyph("a-cyr", <<>>, <<Component("a", Identity)>>, 1072, ""),
        Glyph("amacron", <<Anchor(top, 175, 481)>>,
              <<Component("a", Identity), Component("macroncomb", Shift(175, 0))>>,
              257, ""),
        Glyph("adieresis", <<>>,
              <<Component("a", Identity), Component("dieresiscomb", Shift(175, 0))>>,
              228, ""),
        Glyph("amacrondieresis", <<>>,
              <<Component("amacron", Identity),
                Component("dieresiscomb", Shift(175, 180))>>, 0, ""),
        Glyph("adieresismacron", <<>>,
              <<Component("a", Identity), Component("dieresiscomb", Shift(175, 0)),
                Component("macroncomb", Shift(175, 180))>>, 0, ""),
        Glyph("a_a", <<>>,
              <<Component("a", Identity), Component("a", Shift(350, 0))>>,
              0, "ligature"),
        Glyph("emacron", <<>>,
              <<Component("e", Identity), Component("macroncomb", Shift(175, 0))>>,
              275, ""),
        Glyph("macroncomb.alt", <<Anchor(Mark(top), 0, 340)>>,
              <<Component("macroncomb", Shift(0, -30))>>, 0, ""),
        Glyph("o", <<Anchor(top, 175, 340), Anchor(bottom, 175, 0)>>, <<>>, 111, ""),
        Glyph("ohorn", <<Anchor(topright, 345, 340)>>,
              <<Component("o", Identity)>>, 417, ""),
        Glyph("macronbelowcomb",
              <<Anchor(Mark(bottom), 0, 0), Anchor(bottom, 0, -180)>>,
              <<Component("macroncomb", Shift(0, -430))>>, 817, ""),
        Glyph("amacronbelow", <<>>,
              <<Component("a", Identity),
                Component("macronbelowcomb", Shift(175, 0))>>, 0, ""),
        Glyph("circumflexcomb", <<Anchor(Mark(top), 0, 300), Anchor(top, 0, 480)>>,
              <<>>, 770, ""),
        Glyph("caroncomb", <<Anchor(Mark(bottom), 0, 0), Anchor(bottom, 0, -280)>>,
              <<Component("circumflexcomb", <<1, 0, 0, -1, 0, 760>>)>>, 772, ""),
        Glyph("caronbelowcomb",
              <<Anchor(Mark(bottom), 0, 0), Anchor(bottom, 0, -280)>>,
              <<Component("circumflexcomb", <<-1, 0, 0, -1, 0, 280>>)>>, 812, "")
    >>)

\* The glyphs the tests run the filter on, one at a time (include={name}).
TestIncludes ==
    {{"space"}, {"a"}, {"a-cyr"}, {"dieresis"}, {"adieresis"}, {"amacron"},
     {"adieresismacron"}, {"amacrondieresis"}, {"ohorn"}, {"a_a"},
     {"macroncomb.alt"}, {"macronbelowcomb"}, {"amacronbelow"}, {"caroncomb"},
     {"caronbelowcomb"}, {"emacron"}}

\* The font of test_get_anchor_attachment.
AttachmentTestFont ==
    MakeFont(<<
        Glyph("a", <<Anchor(top, 300, 500), Anchor(bottom, 300, 0)>>, <<>>, 0, ""),
        Glyph("acutecomb", <<Anchor(Mark(top), 0, 500)>>, <<>>, 0, ""),
        Glyph("dotbelowcomb", <<Anchor(Mark(bottom), 0, 0)>>, <<>>, 0, ""),
        Glyph("circumflexcomb",
              <<Anchor(top, 0, 560), Anchor(Sub(top, viet), 40, 540),
                Anchor(Mark(top), 0, 500)>>, <<>>, 0, ""),
        Glyph("f_f", <<Anchor(Sub(top, <<"1">>), 200, 500),
                       Anchor(Sub(top, <<"2">>), 600, 500)>>, <<>>, 0, "")
    >>)

\* The attachments option of test_whole_font_custom_attachments.
TestAttachments ==
    <<Attachment({top}, {Mark(top)}), Attachment({bottom}, {Mark(bottom)})>>

---------------------------------------------------------------------------
(* The fonts of the model *)

\* Most components a composite of the generated fonts has.
MaxComponents == 2

\* Runs of the filter over one font.
MaxRuns == 2

\* Glyphs without components of the generated fonts: two bases, two marks.
LeafGlyphs ==
    <<Glyph("a", <<Anchor(top, 1, 3), Anchor(bottom, 1, 0)>>, <<>>, 97, ""),
      Glyph("v", <<Anchor(top, 1, 3), Anchor(Sub(top, viet), 2, 3)>>, <<>>, 118, ""),
      Glyph("m", <<Anchor(Mark(top), 0, 3), Anchor(top, 0, 5)>>, <<>>, 776, ""),
      Glyph("n", <<Anchor(Mark(bottom), 0, 0), Anchor(bottom, 0, -2)>>, <<>>, 817, "")>>

\* The components of the composite "x": leaves in place and shifted, the
\* composite "y", "x" itself and the glyph "e", which no font has.
ComponentChoices ==
    {Component("a", Identity), Component("v", Shift(3, 0)),
     Component("m", Shift(1, 0)), Component("m", Shift(2, 0)),
     Component("y", Identity), Component("x", Identity), Component("e", Identity)}

\* Component lists of "x": 1..MaxComponents components, no component twice (a
\* component object equals another with the same base glyph and transformation
\* in one font library and not in the other).
ComponentLists ==
    UNION {{cs \in [1..n -> ComponentChoices] :
               \A i, j \in 1..n : i # j => cs[i] # cs[j]} : n \in 1..MaxComponents}

\* A base with two marks side by side.
StackedMarks ==
    <<Component("a", Identity), Component("m", Shift(1, 0)), Component("m", Shift(2, 0))>>

\* <<category in public.openTypeCategories, code point>> of "x".
CategoryChoices == {<<"", 0>>, <<"", 97>>, <<"mark", 0>>, <<"ligature", 97>>}

\* Anchors "x" has of its own.
LocalChoices ==
    {<<>>, <<Anchor(top, 1, 6)>>,
     <<Anchor(bottom, 1, -1), Anchor(Sub(top, <<"1">>), 9, 9)>>}

\* The composite "y": a base with a mark; a reference back to "x"; two marks;
\* a base with an anchor of its own.
InnerGlyph == Glyph("y", <<>>, <<Component("a", Identity), Component("m", Shift(1, 0))>>, 0, "")
InnerChoices ==
    {Glyph("y", <<>>, <<Component("x", Identity)>>, 0, ""),
     Glyph("y", <<>>, <<Component("m", Identity), Component("m", Shift(0, 2))>>, 0, ""),
     Glyph("y", <<Anchor(top, 1, 4)>>, <<Component("a", Identity)>>, 98, "")}

GeneratedFont(loc, cs, cat, y) ==
    MakeFont(LeafGlyphs \o <<Glyph("x", loc, cs, cat[2], cat[1]), y>>)

\* Every component list with every category and every choice of own anchors;
\* the other composites "y" under the lists that use "y".
GeneratedFonts ==
    {GeneratedFont(loc, cs, cat, InnerGlyph) :
        loc \in LocalChoices, cs \in ComponentLists \cup {StackedMarks},
        cat \in CategoryChoices}
    \cup
    {GeneratedFont(<<>>, cs, <<"", 0>>, y) :
        cs \in {l \in ComponentLists : \E i \in 1..Len(l) : l[i].baseGlyph = "y"},
        y \in InnerChoices}

\* Fonts of four glyphs in which "x" has the composite "y" as a component; the
\* filter is run on them with every glyph selected.
NestedLists ==
    {<<Component("y", Identity)>>,
     <<Component("y", Identity), Component("m", Shift(2, 0))>>,
     <<Component("a", Identity), Component("y", Shift(1, 0))>>,
     <<Component("m", Identity), Component("y", Shift(0, 2))>>}

NestedFonts ==
    {MakeFont(<<LeafGlyphs[1], LeafGlyphs[3], Glyph("x", <<>>, cs, cat[2], cat[1]), y>>) :
        cs \in NestedLists, cat \in CategoryChoices,
        y \in {InnerGlyph} \cup {g \in InnerChoices : g.components[1].baseGlyph # "x"}}

\* Explicit attachments options: the one of the tests, one with an empty mark
\* list, one that names "bottom" in two records.
ExplicitChoices ==
    {TestAttachments,
     <<Attachment({top}, {})>>,
     <<Attachment({top, bottom}, {Mark(top)}), Attachment({bottom}, {Mark(bottom)})>>}

\* The fonts run with explicit attachments.
ConfiguredFonts == {GeneratedFont(<<>>, cs, <<"", 97>>, InnerGlyph) : cs \in ComponentLists}

\* Glyphs without components of the fonts with a transformed component: bases
\* with corner anchors, marks for "topright", "top" and "bottom".
CornerGlyphs ==
    <<Glyph("l", <<Anchor(topleft, 1, 3), Anchor(bottom, 1, 0)>>, <<>>, 108, ""),
      Glyph("o", <<Anchor(topright, 3, 3), Anchor(top, 2, 3)>>, <<>>, 111, ""),
      Glyph("r", <<Anchor(Mark(topright), 0, 3)>>, <<>>, 776, ""),
      Glyph("m", <<Anchor(Mark(top), 0, 3)>>, <<>>, 776, ""),
      Glyph("n", <<Anchor(Mark(bottom), 0, 0)>>, <<>>, 817, "")>>

\* Component transformations: identity, translation, the two flips, the
\* rotation by 180 degrees, a scaling.
Transformations ==
    {Identity, Shift(2, 1), <<-1, 0, 0, 1, 4, 0>>, <<1, 0, 0, -1, 0, 6>>,
     <<-1, 0, 0, -1, 4, 6>>, <<2, 0, 0, 1, 0, 0>>}

\* A base composite "x" of one transformed component.
TransformedFonts ==
    {MakeFont(CornerGlyphs \o <<Glyph("x", <<>>, <<Component(b, t)>>, 120, "")>>) :
        b \in {"l", "o"}, t \in Transformations}

\* Ligatures "x" of three components: two "a" around a glyph without anchors,
\* and three "a".
AnchorlessGlyph == Glyph("s", <<>>, <<>>, 115, "")
LigatureFonts ==
    {MakeFont(LeafGlyphs \o
         <<AnchorlessGlyph,
           Glyph("x", <<>>,
                 <<Component("a", Identity), Component(b, Shift(3, 0)),
                   Component("a", Shift(6, 0))>>, 0, "ligature")>>) :
        b \in {"s", "a"}}

\* A mark composite "x" with topleft of its own and one component, in place
\* or flipped, that brings topright or topleft.
OpposedMarkFonts ==
    {MakeFont(CornerGlyphs \o
         <<Glyph("x", <<Anchor(topleft, 0, 3)>>, <<Component(b, t)>>, 0, "mark")>>) :
        b \in {"l", "o"}, t \in {Identity, <<-1, 0, 0, 1, 4, 0>>}}

Options(attachments, include) == [attachments |-> attachments, include |-> include]

---------------------------------------------------------------------------
(* The state machine *)

NoFinish ==
    [glyph |-> "", category |-> "", before |-> <<>>, collected |-> <<>>,
     survivors |-> <<>>, appended |-> <<>>]

\* No writer has been made.
NoWriter ==
    /\ ufo = [glyphs |-> <<>>, indicGlyphs |-> {}, todo |-> {}, unitsPerEm |-> 0]
    /\ feaFile = [statements |-> <<>>, markClasses |-> <<>>]
    /\ writer = [phase |-> "none"]

Init ==
    /\ \/ /\ font \in GeneratedFonts
          /\ options = Options(<<>>, {"x", "y"})
       \/ /\ font \in ConfiguredFonts
          /\ options \in {Options(c, {"x"}) : c \in ExplicitChoices}
       \/ /\ font = TestFont
          /\ options \in {Options(<<>>, inc) : inc \in TestIncludes}
                         \cup {Options(TestAttachments, {"adieresis"})}
       \/ /\ font = AttachmentTestFont
          /\ options = Options(<<>>, DOMAIN AttachmentTestFont.anchors)
       \/ /\ font \in TransformedFonts
          /\ options = Options(<<>>, {"x"})
       \/ /\ font \in LigatureFonts
          /\ options = Options(<<>>, {"x"})
       \/ /\ font \in OpposedMarkFonts
          /\ options = Options(<<>>, {"x"})
       \/ /\ font \in NestedFonts
          /\ options = Options(<<>>, DOMAIN font.anchors)
    /\ anchors = font.anchors
    /\ context = [processed |-> {}, attachments |-> <<>>, modified |-> {}]
    /\ todo = {}
    /\ stack = <<>>
    /\ phase = "idle"
    /\ run = 1
    /\ error = "none"
    /\ warnings = {}
    /\ runStart = font.anchors
    /\ firstRun = font.anchors
    /\ lastFinish = NoFinish
    /\ NoWriter

glyphSet == DOMAIN anchors

\* set_context: a new context for the run; BaseFilter.__call__ then visits the
\* included glyphs.
SetContext ==
    /\ phase = "idle"
    /\ run <= MaxRuns
    /\ \E atts \in CollectAttachments(options, anchors) :
          context' = [processed |-> {}, attachments |-> atts, modified |-> {}]
    /\ todo' = glyphSet \cap options.include
    /\ phase' = "running"
    /\ runStart' = anchors
    /\ lastFinish' = NoFinish
    /\ UNCHANGED <<writerVars, font, options, anchors, stack, run, error, warnings, firstRun>>

\* filter() on a glyph without components: False.
FilterSimpleGlyph(g) ==
    /\ phase = "running" /\ stack = <<>> /\ g \in todo
    /\ font.components[g] = <<>>
    /\ todo' = todo \ {g}
    /\ UNCHANGED <<writerVars, font, options, anchors, context, stack, phase, run, error,
                   warnings, runStart, firstRun, lastFinish>>

\* filter() on a composite that was propagated as a component before:
\* _propagate_glyph_anchors returns at once and filter() returns False.
FilterProcessedGlyph(g) ==
    /\ phase = "running" /\ stack = <<>> /\ g \in todo
    /\ font.components[g] # <<>>
    /\ g \in context.processed
    /\ todo' = todo \ {g}
    /\ UNCHANGED <<writerVars, font, options, anchors, context, stack, phase, run, error,
                   warnings, runStart, firstRun, lastFinish>>

Frame(g) == [glyph |-> g, i |-> 1, pas |-> <<>>]

\* filter() on a composite: the call of _propagate_glyph_anchors begins.
FilterComposite(g) ==
    /\ phase = "running" /\ stack = <<>> /\ g \in todo
    /\ font.components[g] # <<>>
    /\ g \notin context.processed
    /\ context' = [context EXCEPT !.processed = @ \cup {g}]
    /\ stack' = <<Frame(g)>>
    /\ UNCHANGED <<writerVars, font, options, anchors, todo, phase, run, error, warnings,
                   runStart, firstRun, lastFinish>>

Top == stack[Len(stack)]
Collecting ==
    /\ phase = "running" /\ stack # <<>>
    /\ Top.i <= Len(font.components[Top.glyph])
CurrentComponent == font.components[Top.glyph][Top.i]
SetTop(frame) == [stack EXCEPT ![Len(stack)] = frame]

\* An exception leaves every call and BaseFilter.__call__: the run is over.
Raise(exception) ==
    /\ error' = exception
    /\ phase' = "failed"
    /\ stack' = <<>>
    /\ UNCHANGED <<writerVars, font, options, anchors, context, todo, run, warnings, runStart,
                   firstRun, lastFinish>>

\* A faulty SkipMissingComponent: the KeyError of the lookup is not caught.
C10_Mutant_RaiseKeyError ==
    /\ Collecting
    /\ CurrentComponent.baseGlyph \notin glyphSet
    /\ Raise("KeyError")

\* _collect_components_anchors: the component's glyph is not in the glyph set.
SkipMissingComponent ==
    /\ Collecting
    /\ CurrentComponent.baseGlyph \notin glyphSet
    /\ warnings' = warnings \cup {<<CurrentComponent.baseGlyph, Top.glyph>>}
    /\ stack' = SetTop([Top EXCEPT !.i = @ + 1])
    /\ UNCHANGED <<writerVars, font, options, anchors, context, todo, phase, run, error,
                   runStart, firstRun, lastFinish>>

\* The component's glyph is processed or has no components: its anchors are
\* returned as they are and added, transformed, to the propagated anchors.
CollectComponent ==
    /\ Collecting
    /\ LET base == CurrentComponent.baseGlyph
       IN  /\ base \in glyphSet
           /\ base \in context.processed \/ font.components[base] = <<>>
           /\ context' = [context EXCEPT !.processed = @ \cup {base}]
           /\ stack' = SetTop([Top EXCEPT
                  !.pas = @ \o ComponentAnchors(CurrentComponent, anchors[base],
                                                context.attachments),
                  !.i = @ + 1])
    /\ UNCHANGED <<writerVars, font, options, anchors, todo, phase, run, error, warnings,
                   runStart, firstRun, lastFinish>>

\* A faulty DescendIntoComponent: the component's anchors are taken as they
\* are, without the recursive call.
C28_Mutant_NoDescent ==
    /\ Collecting
    /\ LET base == CurrentComponent.baseGlyph
       IN  /\ base \in glyphSet
           /\ base \notin context.processed
           /\ font.components[base] # <<>>
           /\ context' = [context EXCEPT !.processed = @ \cup {base}]
           /\ stack' = SetTop([Top EXCEPT
                  !.pas = @ \o ComponentAnchors(CurrentComponent, anchors[base],
                                                context.attachments),
                  !.i = @ + 1])
    /\ UNCHANGED <<writerVars, font, options, anchors, todo, phase, run, error, warnings,
                   runStart, firstRun, lastFinish>>

\* The component's glyph is an unprocessed composite: the recursive call.
DescendIntoComponent ==
    /\ Collecting
    /\ LET base == CurrentComponent.baseGlyph
       IN  /\ base \in glyphSet
           /\ base \notin context.processed
           /\ font.components[base] # <<>>
           /\ context' = [context EXCEPT !.processed = @ \cup {base}]
           /\ stack' = Append(stack, Frame(base))
    /\ UNCHANGED <<writerVars, font, options, anchors, todo, phase, run, error, warnings,
                   runStart, firstRun, lastFinish>>

Collected ==
    /\ phase = "running" /\ stack # <<>>
    /\ Top.i > Len(font.components[Top.glyph])

\* What _propagate_glyph_anchors makes of the collected anchors of a glyph:
\* the category, the anchors that survive the pruning, the anchors to append,
\* or the exception raised on the way.
Propagation(f, anch, atts, frame) ==
    LET category == GetGlyphCategory(f, anch, atts, [glyph |-> frame.glyph, path |-> {}])
        glyph_anchor_names == NamesOf(anch[frame.glyph])
        pruned == Survivors(category, glyph_anchor_names,
                            PruneUndefinedAndLocal(frame.pas, glyph_anchor_names), atts)
        failed == category = "RecursionError" \/ pruned.error # "none"
    IN  [error |-> IF category = "RecursionError" THEN category ELSE pruned.error,
         glyph |-> frame.glyph,
         category |-> category,
         before |-> anch[frame.glyph],
         collected |-> frame.pas,
         survivors |-> IF failed THEN <<>> ELSE pruned.pas,
         appended |-> IF failed THEN <<>>
                      ELSE AnchorsToAppend(Named(category, pruned.pas))]

Result == Propagation(font, anchors, context.attachments, Top)

\* get_glyph_category calls itself without end.
RaiseRecursionError ==
    /\ Collected
    /\ Result.error = "RecursionError"
    /\ Raise("RecursionError")

\* _prune_attached_anchors removes an anchor that is gone.
RaiseValueError ==
    /\ Collected
    /\ Result.error = "ValueError"
    /\ Raise("ValueError")

Observation(r) ==
    [glyph |-> r.glyph, category |-> r.category, before |-> r.before,
     collected |-> r.collected, survivors |-> r.survivors, appended |-> r.appended]

\* The call made by filter() returns: the glyph is modified when it has more
\* anchors than before.
FinishFilteredGlyph ==
    /\ Collected
    /\ Len(stack) = 1
    /\ LET r == Result
       IN  /\ r.error = "none"
           /\ anchors' = [anchors EXCEPT ![r.glyph] = AppendAnchors(@, r.appended)]
           /\ context' = [context EXCEPT !.modified =
                             IF Len(anchors'[r.glyph]) > Len(anchors[r.glyph])
                             THEN @ \cup {r.glyph} ELSE @]
           /\ todo' = todo \ {r.glyph}
           /\ lastFinish' = Observation(r)
    /\ stack' = <<>>
    /\ UNCHANGED <<writerVars, font, options, phase, run, error, warnings, runStart, firstRun>>

\* A recursive call returns: the caller adds the anchors the glyph has now.
FinishComponentGlyph ==
    /\ Collected
    /\ Len(stack) > 1
    /\ LET r == Result
           caller == stack[Len(stack) - 1]
           component == font.components[caller.glyph][caller.i]
       IN  /\ r.error = "none"
           /\ anchors' = [anchors EXCEPT ![r.glyph] = AppendAnchors(@, r.appended)]
           /\ stack' = SubSeq(stack, 1, Len(stack) - 2) \o
                  <<[caller EXCEPT
                       !.pas = @ \o ComponentAnchors(component, anchors'[r.glyph],
                                                     context.attachments),
                       !.i = @ + 1]>>
           /\ lastFinish' = Observation(r)
    /\ UNCHANGED <<writerVars, font, options, context, todo, phase, run, error, warnings,
                   runStart, firstRun>>

\* BaseFilter.__call__ has visited every included glyph and returns.
EndRun ==
    /\ phase = "running" /\ stack = <<>> /\ todo = {}
    /\ phase' = "idle"
    /\ run' = run + 1
    /\ firstRun' = IF run = 1 THEN anchors ELSE firstRun
    /\ UNCHANGED <<writerVars, font, options, anchors, context, todo, stack, error, warnings,
                   runStart, lastFinish>>

Next ==
    \/ SetContext
    \/ \E g \in todo : FilterSimpleGlyph(g)
    \/ \E g \in todo : FilterProcessedGlyph(g)
    \/ \E g \in todo : FilterComposite(g)
    \/ SkipMissingComponent
    \/ CollectComponent
    \/ DescendIntoComponent
    \/ RaiseRecursionError
    \/ RaiseValueError
    \/ FinishFilteredGlyph
    \/ FinishComponentGlyph
    \/ EndRun

Spec == Init /\ [][Next]_vars

---------------------------------------------------------------------------
(* The mark feature writer: anchor names *)

MARK_PREFIX == <<"_">>
LIGA_SEPARATOR == <<"_">>

\* str.startswith and str.endswith.
StartsWith(s, prefix) ==
    Len(prefix) <= Len(s) /\ SubSeq(s, 1, Len(prefix)) = prefix
EndsWith(s, suffix) ==
    Len(suffix) <= Len(s) /\ SubSeq(s, Len(s) - Len(suffix) + 1, Len(s)) = suffix

IsDigit(c) == Ord(c) <= 10

\* LIGA_NUM_RE, ".*?(\d+)$": the group is the longest run of digits the name
\* ends with; the empty sequence when the name ends with no digit (no match).
LigaNumMatch(anchorName) ==
    LET n == Cardinality({k \in 1..Len(anchorName) :
                             \A j \in k..Len(anchorName) : IsDigit(anchorName[j])})
    IN  SubSeq(anchorName, Len(anchorName) - n + 1, Len(anchorName))

\* str.rstrip(chars): the trailing characters that occur in chars are removed.
RStrip(s, chars) ==
    LET n == Cardinality({k \in 1..Len(s) :
                             \A j \in k..Len(s) : Contains(chars, s[j])})
    IN  SubSeq(s, 1, Len(s) - n)

\* int() of a sequence of digits.
RECURSIVE int(_)
int(digits) ==
    IF digits = <<>> THEN 0
    ELSE 10 * int(SubSeq(digits, 1, Len(digits) - 1)) + (Ord(digits[Len(digits)]) - 1)

\* The number of an anchor: None, or the int.
NoNumber == <<>>
Number(n) == <<n>>

Parsed(isMark, key, number) ==
    [error |-> "none", isMark |-> isMark, key |-> key, number |-> number]
ParseError(exception) ==
    [error |-> exception, isMark |-> FALSE, key |-> <<>>, number |-> NoNumber]

\* A faulty parseAnchorName: a numbered mark name is let through as a mark.
C14_Mutant_NumberedMarkAccepted(anchorName) ==
    LET digits == LigaNumMatch(anchorName)
        stripped == RStrip(anchorName, digits)
        numbered == digits # <<>> /\ EndsWith(stripped, LIGA_SEPARATOR)
        key == IF numbered
               THEN SubSeq(stripped, 1, Len(stripped) - Len(LIGA_SEPARATOR))
               ELSE anchorName
        number == IF numbered THEN Number(int(digits)) ELSE NoNumber
    IN  IF StartsWith(anchorName, MARK_PREFIX) /\ key # <<>>
        THEN IF SubSeq(key, Len(MARK_PREFIX) + 1, Len(key)) = <<>>
             THEN ParseError("ValueError")
             ELSE Parsed(TRUE, SubSeq(key, Len(MARK_PREFIX) + 1, Len(key)), number)
        ELSE Parsed(FALSE, key, number)

\* parseAnchorName with the default prefix, separator and regular expression
\* and no ignoreRE.
parseAnchorName(anchorName) ==
    LET digits == LigaNumMatch(anchorName)
        stripped == RStrip(anchorName, digits)
        numbered == digits # <<>> /\ EndsWith(stripped, LIGA_SEPARATOR)
        key == IF numbered
               THEN SubSeq(stripped, 1, Len(stripped) - Len(LIGA_SEPARATOR))
               ELSE anchorName
        number == IF numbered THEN Number(int(digits)) ELSE NoNumber
    IN  IF StartsWith(anchorName, MARK_PREFIX) /\ key # <<>>
        THEN IF number # NoNumber THEN ParseError("ValueError")
             ELSE IF SubSeq(key, Len(MARK_PREFIX) + 1, Len(key)) = <<>>
             THEN ParseError("ValueError")
             ELSE Parsed(TRUE, SubSeq(key, Len(MARK_PREFIX) + 1, Len(key)), number)
        ELSE Parsed(FALSE, key, number)

\* NamedAnchor.__init__: the parsed anchor, or the exception raised.
NamedAnchor(name, x, y) ==
    LET parsed == parseAnchorName(name)
        failure == IF parsed.error # "none" THEN parsed.error
                   ELSE IF parsed.number # NoNumber
                        THEN IF parsed.number[1] < 1 THEN "ValueError" ELSE "none"
                   ELSE IF parsed.key = <<>> THEN "AssertionError"
                   ELSE "none"
    IN  [error |-> failure, name |-> name, x |-> x, y |-> y,
         isMark |-> parsed.isMark, key |-> parsed.key, number |-> parsed.number]

\* NamedAnchor.markAnchorName.
markAnchorName(anchor) == MARK_PREFIX \o anchor.key

---------------------------------------------------------------------------
(* The mark feature writer: anchors and mark classes *)

\* The elements of a set of strings as sorted() lists them.
Sorted(S) ==
    [i \in 1..Cardinality(S) |->
        CHOOSE e \in S : Cardinality({d \in S : StrLess(d, e)}) = i - 1]

\* The anchors of a list as sorted(..., key=lambda a: a.name) lists them; the
\* sort is stable.
SortedByName(anchorList) ==
    LET before(j, k) == \/ StrLess(anchorList[j].name, anchorList[k].name)
                        \/ (anchorList[j].name = anchorList[k].name /\ j < k)
        rank(k) == Cardinality({j \in 1..Len(anchorList) : before(j, k)})
    IN  [i \in 1..Len(anchorList) |->
            anchorList[CHOOSE k \in 1..Len(anchorList) : rank(k) = i - 1]]

\* _getAnchorLists, one glyph: the named anchors of the glyph.
NamedOf(glyphAnchors) == SelectSeq(glyphAnchors, LAMBDA a : a.name # <<>>)

\* A faulty _getAnchorLists: every named anchor is listed, also one whose
\* name the glyph has again.
C29_Mutant_NoAnchorDict(glyphAnchors) ==
    LET named == NamedOf(glyphAnchors)
    IN  [k \in 1..Len(named) |-> NamedAnchor(named[k].name, named[k].x, named[k].y)]

\* _getAnchorLists, one glyph: list(anchorDict.values()).  A name keeps the
\* place of its first anchor and the value of its last.
AnchorDictValues(glyphAnchors) ==
    LET named == NamedOf(glyphAnchors)
        indices == [k \in 1..Len(named) |-> k]
        firsts == SelectSeq(indices,
                      LAMBDA k : \A j \in 1..(k - 1) : named[j].name # named[k].name)
        last(k) == CHOOSE j \in 1..Len(named) :
                       /\ named[j].name = named[k].name
                       /\ \A i \in (j + 1)..Len(named) : named[i].name # named[k].name
    IN  [i \in 1..Len(firsts) |->
            NamedAnchor(named[last(firsts[i])].name, named[last(firsts[i])].x,
                        named[last(firsts[i])].y)]

\* The exception NamedAnchor raises for an anchor of the glyphs, "none" when
\* it raises none: the one of the first anchor it fails on.
AnchorError(glyphs) ==
    LET all == Flatten([g \in 1..Len(glyphs) |->
                   [k \in 1..Len(NamedOf(glyphs[g].anchors)) |->
                       NamedAnchor(NamedOf(glyphs[g].anchors)[k].name, 0, 0).error]])
        failing == {k \in 1..Len(all) : all[k] # "none"}
    IN  IF failing = {} THEN "none"
        ELSE all[CHOOSE k \in failing : \A j \in failing : k <= j]

\* _getAnchorLists: glyph name and anchor list of every glyph with a named
\* anchor, in the order of the glyph set.
GetAnchorLists(glyphs) ==
    SelectSeq([g \in 1..Len(glyphs) |->
                  [name |-> glyphs[g].name,
                   anchors |-> AnchorDictValues(glyphs[g].anchors)]],
              LAMBDA entry : entry.anchors # <<>>)

\* Every anchor of the anchor lists.
AllAnchors(anchorLists) ==
    Flatten([g \in 1..Len(anchorLists) |-> anchorLists[g].anchors])

\* _getAnchorPairs: the dict from base anchor name to mark anchor name, as
\* the set of its items.
GetAnchorPairs(anchorLists) ==
    LET all == Range(AllAnchors(anchorLists))
        markAnchorNames == {a.name : a \in {b \in all : b.isMark}}
    IN  {<<a.name, markAnchorName(a)>> :
            a \in {b \in all : ~b.isMark /\ markAnchorName(b) \in markAnchorNames}}

BaseAnchorNames(anchorPairs) == {pair[1] : pair \in anchorPairs}
MarkAnchorNames(anchorPairs) == {pair[2] : pair \in anchorPairs}

\* _pruneUnusedAnchors.
PruneUnusedAnchors(anchorLists, anchorPairs) ==
    LET attachingAnchorNames ==
            BaseAnchorNames(anchorPairs) \cup MarkAnchorNames(anchorPairs)
        kept(anchorList) ==
            SelectSeq(anchorList,
                      LAMBDA a : ~(a.name \notin attachingAnchorNames /\ a.key # <<>>))
    IN  SelectSeq([g \in 1..Len(anchorLists) |->
                      [anchorLists[g] EXCEPT !.anchors = kept(@)]],
                  LAMBDA entry : entry.anchors # <<>>)

\* _groupMarkGlyphsByAnchor: context.markGlyphNames.
MarkGlyphNames(anchorLists, anchorPairs) ==
    {anchorLists[g].name : g \in {h \in 1..Len(anchorLists) :
        \E a \in Range(anchorLists[h].anchors) : a.name \in MarkAnchorNames(anchorPairs)}}

\* _groupMarkGlyphsByAnchor and the two loops of _makeMarkClassDefinitions:
\* the (mark anchor name, glyph, anchor) triples in the order they are
\* defined in, mark anchor names sorted, the glyphs of a name in the order of
\* the glyph set.
GroupMarkGlyphsByAnchor(anchorLists, anchorPairs) ==
    LET names == Sorted({a.name : a \in {b \in Range(AllAnchors(anchorLists)) :
                                            b.name \in MarkAnchorNames(anchorPairs)}})
        group(name) ==
            Flatten([g \in 1..Len(anchorLists) |->
                [k \in 1..Len(SelectSeq(anchorLists[g].anchors,
                                        LAMBDA a : a.name = name)) |->
                    [markAnchorName |-> name,
                     glyphName |-> anchorLists[g].name,
                     anchor |-> SelectSeq(anchorLists[g].anchors,
                                          LAMBDA a : a.name = name)[k]]]])
    IN  Flatten([i \in 1..Len(names) |-> group(names[i])])

\* A mark class of the feature file: its name and its definitions.
MarkClass(name, definitions) == [name |-> name, definitions |-> definitions]
MarkClassDefinition(glyphName, x, y) == [glyph |-> glyphName, x |-> x, y |-> y]

\* markClasses.get(className): the place of the class in the dict, 0 for None.
ClassIndex(markClasses, className) ==
    IF \E i \in 1..Len(markClasses) : markClasses[i].name = className
    THEN CHOOSE i \in 1..Len(markClasses) : markClasses[i].name = className
    ELSE 0

\* ast.makeFeaClassName(name, existingClassNames): the name, or the first of
\* name_1, name_2, ... that is not in use.
MakeFeaClassName(name, markClasses) ==
    LET used == {markClasses[i].name : i \in 1..Len(markClasses)}
        candidate(i) == IF i = 0 THEN name ELSE name \o <<"_">> \o Dec(i)
    IN  candidate(CHOOSE i \in 0..Len(markClasses) :
                      /\ candidate(i) \notin used
                      /\ \A j \in 0..(i - 1) : candidate(j) \in used)

\* The classPrefix + markAnchorName of _makeMarkClassDefinitions.
markClassPrefix == <<"M", "C">>
ClassNameOf(anchorName) == markClassPrefix \o anchorName

\* A faulty _defineMarkClass: a glyph defined with another position replaces
\* the definition the class has.
C19_Mutant_Overwrite(markClasses, className, glyphName, x, y) ==
    LET i == ClassIndex(markClasses, className)
        mcdef == MarkClassDefinition(glyphName, x, y)
    IN  IF i = 0
        THEN [markClasses |-> Append(markClasses, MarkClass(className, <<mcdef>>)),
              defined |-> TRUE, className |-> className]
        ELSE IF \E d \in Range(markClasses[i].definitions) : d.glyph = glyphName
        THEN IF mcdef \in Range(markClasses[i].definitions)
             THEN [markClasses |-> markClasses, defined |-> FALSE,
                   className |-> className]
             ELSE [markClasses |-> [markClasses EXCEPT ![i].definitions =
                       [k \in 1..Len(@) |-> IF @[k].glyph = glyphName THEN mcdef
                                            ELSE @[k]]],
                   defined |-> TRUE, className |-> className]
        ELSE [markClasses |-> [markClasses EXCEPT ![i].definitions = Append(@, mcdef)],
              defined |-> TRUE, className |-> className]

\* _defineMarkClass: the mark classes after the call, whether a definition was
\* made (mcd is not None), and the name of the class that received it.
DefineMarkClass(markClasses, className, glyphName, x, y) ==
    LET i == ClassIndex(markClasses, className)
        mcdef == MarkClassDefinition(glyphName, x, y)
        newClassName == MakeFeaClassName(className, markClasses)
    IN  IF i = 0
        THEN [markClasses |-> Append(markClasses, MarkClass(className, <<mcdef>>)),
              defined |-> TRUE, className |-> className]
        ELSE IF \E d \in Range(markClasses[i].definitions) : d.glyph = glyphName
        THEN IF mcdef \in Range(markClasses[i].definitions)
             THEN [markClasses |-> markClasses, defined |-> FALSE,
                   className |-> className]
             ELSE [markClasses |-> Append(markClasses,
                                          MarkClass(newClassName, <<mcdef>>)),
                   defined |-> TRUE, className |-> newClassName]
        ELSE [markClasses |-> [markClasses EXCEPT ![i].definitions = Append(@, mcdef)],
              defined |-> TRUE, className |-> className]

---------------------------------------------------------------------------
(* The mark feature writer: attachments, lookups and features *)

\* The feature tags, as strings that sorted() compares.
TagMark == <<"m", "a", "r", "k">>
TagMkmk == <<"m", "k", "m", "k">>
TagAbvm == <<"a", "b", "v", "m">>
TagBlwm == <<"b", "l", "w", "m">>

abvmAnchorNames ==
    {top, topleft, topright, <<"c", "a", "n", "d", "r", "a">>,
     <<"b", "i", "n", "d", "u">>,
     <<"c", "a", "n", "d", "r", "a", "b", "i", "n", "d", "u">>}
blwmAnchorNames == {bottom, bottomleft, bottomright, <<"n", "u", "k", "t", "a">>}

\* context.markClasses[key]: the name of the class of the feature file that
\* the mark classes of the context hold under the key.
ClassOf(markClasses, key) == (CHOOSE pair \in markClasses : pair[1] = key)[2]

\* The three kinds of AbstractMarkPos.
MarkToBasePos(name, marks) ==
    [Statement |-> "MarkBasePosStatement", name |-> name, marks |-> marks]
MarkToMarkPos(name, marks) ==
    [Statement |-> "MarkMarkPosStatement", name |-> name, marks |-> marks]
MarkToLigaPos(name, marks) ==
    [Statement |-> "MarkLigPosStatement", name |-> name, marks |-> marks]

\* _makeMarkToBaseAttachments.
MakeMarkToBaseAttachments(ctx) ==
    LET baseMarks(anchorList) == SelectSeq(anchorList, LAMBDA a : a.number = NoNumber)
        bases == SelectSeq(ctx.anchorLists,
                     LAMBDA entry : /\ entry.name \notin ctx.markGlyphNames
                                    /\ baseMarks(entry.anchors) # <<>>)
    IN  [g \in 1..Len(bases) |-> MarkToBasePos(bases[g].name, baseMarks(bases[g].anchors))]

\* _makeMarkToLigaAttachments, one glyph: componentAnchors.get(number, []).
\* An anchor without key empties the list of its number.
ComponentAnchorsOf(anchorList, number) ==
    LET indices == [k \in 1..Len(anchorList) |-> k]
        resets == {k \in 1..Len(anchorList) :
                      anchorList[k].number = Number(number) /\ anchorList[k].key = <<>>}
        kept == SelectSeq(indices,
                    LAMBDA k : /\ anchorList[k].number = Number(number)
                               /\ anchorList[k].key # <<>>
                               /\ \A r \in resets : r < k)
    IN  [i \in 1..Len(kept) |-> anchorList[kept[i]]]

\* _makeMarkToLigaAttachments, one glyph: ligatureMarks.
LigatureMarks(anchorList) ==
    LET numbers == {a.number[1] : a \in {b \in Range(anchorList) : b.number # NoNumber}}
        max == CHOOSE n \in numbers : \A m \in numbers : m <= n
    IN  [number \in 1..max |-> ComponentAnchorsOf(anchorList, number)]

\* _makeMarkToLigaAttachments.
MakeMarkToLigaAttachments(ctx) ==
    LET ligatures == SelectSeq(ctx.anchorLists,
                         LAMBDA entry : /\ entry.name \notin ctx.markGlyphNames
                                        /\ \E a \in Range(entry.anchors) :
                                              a.number # NoNumber)
    IN  [g \in 1..Len(ligatures) |->
            MarkToLigaPos(ligatures[g].name, LigatureMarks(ligatures[g].anchors))]

\* _makeMarkToMarkAttachments: the keys of the dict, and the list of a key.
MarkToMarkAnchors(anchorList) ==
    SelectSeq(anchorList, LAMBDA a : ~a.isMark /\ a.number = NoNumber)

MarkToMarkKeys(ctx) ==
    {a.key : a \in UNION {Range(MarkToMarkAnchors(ctx.anchorLists[g].anchors)) :
                g \in {h \in 1..Len(ctx.anchorLists) :
                          ctx.anchorLists[h].name \in ctx.markGlyphNames}}}

MarkToMarkAttachments(ctx, key) ==
    Flatten([g \in 1..Len(ctx.anchorLists) |->
        IF ctx.anchorLists[g].name \notin ctx.markGlyphNames THEN <<>>
        ELSE LET found == SelectSeq(MarkToMarkAnchors(ctx.anchorLists[g].anchors),
                                    LAMBDA a : a.key = key)
             IN  [k \in 1..Len(found) |->
                     MarkToMarkPos(ctx.anchorLists[g].name, <<found[k]>>)]])

\* _getVerticalThreshold: unitsPerEm // 2.
GetVerticalThreshold(unitsPerEm) == unitsPerEm \div 2

\* A faulty _isAboveMark: the threshold decides for every name.
C21_Mutant_ThresholdOnly(ctx, anchor) == anchor.y >= ctx.threshold

\* _isAboveMark and _isBelowMark.
IsAboveMark(ctx, anchor) ==
    IF anchor.name \in abvmAnchorNames THEN TRUE
    ELSE IF anchor.name \in blwmAnchorNames THEN FALSE
    ELSE anchor.y >= ctx.threshold

MarksFilter(ctx, marksFilter, anchor) ==
    IF marksFilter = "isAboveMark" THEN IsAboveMark(ctx, anchor)
    ELSE ~IsAboveMark(ctx, anchor)

\* isIndic and isNotIndic of _makeFeatures.
Include(ctx, include, glyphName) ==
    IF include = "isIndic" THEN glyphName \in ctx.indicGlyphs
    ELSE glyphName \notin ctx.indicGlyphs

\* AbstractMarkPos._filterMarks and MarkToLigaPos._filterMarks.
FilterMarks(ctx, pos, marksFilter) ==
    IF pos.Statement = "MarkLigPosStatement"
    THEN [c \in 1..Len(pos.marks) |->
             SelectSeq(pos.marks[c], LAMBDA a : MarksFilter(ctx, marksFilter, a))]
    ELSE SelectSeq(pos.marks, LAMBDA a : MarksFilter(ctx, marksFilter, a))

\* any(marks) of AbstractMarkPos.filter: a mark is left, or the list of a
\* component is not empty.
AnyMarks(pos) ==
    IF pos.Statement = "MarkLigPosStatement"
    THEN \E c \in 1..Len(pos.marks) : pos.marks[c] # <<>>
    ELSE pos.marks # <<>>

\* A faulty _iterAttachments: the include test on the glyph is left out.
C20_Mutant_IncludeIgnored(ctx, attachments, include, marksFilter) ==
    LET filtered == [i \in 1..Len(attachments) |->
                        IF marksFilter = "None" THEN attachments[i]
                        ELSE [attachments[i] EXCEPT
                                 !.marks = FilterMarks(ctx, attachments[i], marksFilter)]]
    IN  IF marksFilter = "None" THEN attachments
        ELSE SelectSeq(filtered, LAMBDA pos : AnyMarks(pos))

\* _iterAttachments with AbstractMarkPos.filter.
IterAttachments(ctx, attachments, include, marksFilter) ==
    LET included == SelectSeq(attachments, LAMBDA pos : Include(ctx, include, pos.name))
        filtered == [i \in 1..Len(included) |->
                        IF marksFilter = "None" THEN included[i]
                        ELSE [included[i] EXCEPT
                                 !.marks = FilterMarks(ctx, included[i], marksFilter)]]
    IN  IF marksFilter = "None" THEN included
        ELSE SelectSeq(filtered, LAMBDA pos : AnyMarks(pos))

\* _marksAsAST: position and mark class of the anchors, sorted by anchor name.
AnchorsAsAST(ctx, anchorList) ==
    [k \in 1..Len(anchorList) |->
        [x |-> SortedByName(anchorList)[k].x,
         y |-> SortedByName(anchorList)[k].y,
         markClass |-> ClassOf(ctx.markClasses, SortedByName(anchorList)[k].key)]]

\* asAST.
AsAST(ctx, pos) ==
    [Statement |-> pos.Statement,
     glyph |-> pos.name,
     marks |-> IF pos.Statement = "MarkLigPosStatement"
               THEN [c \in 1..Len(pos.marks) |-> AnchorsAsAST(ctx, pos.marks[c])]
               ELSE AnchorsAsAST(ctx, pos.marks)]

\* The name of a lookup: "mark2base", "abvm_mark2liga", "mark2mark_top", ...
LookupName(featureTag, kind, anchorName) ==
    [featureTag |-> featureTag, kind |-> kind, anchorName |-> anchorName]

LookupBlock(name, statements) ==
    [Statement |-> "LookupBlock", name |-> name, statements |-> statements]

FeatureBlock(tag, statements) ==
    [Statement |-> "FeatureBlock", name |-> tag, statements |-> statements]

\* _makeMarkLookup: the lookup in a list, the empty list for None.
MakeMarkLookup(ctx, lookupName, attachments, include, marksFilter) ==
    LET found == IterAttachments(ctx, attachments, include, marksFilter)
    IN  IF found = <<>> THEN <<>>
        ELSE <<LookupBlock(lookupName, [i \in 1..Len(found) |-> AsAST(ctx, found[i])])>>

\* _makeMarkFilteringSetClass: the members given to the glyph class.
MakeMarkFilteringSetClass(ctx, lookupName, attachments, className, include) ==
    LET definitions == ctx.feaMarkClasses[ClassIndex(ctx.feaMarkClasses, className)].definitions
        glyphs == [k \in 1..Len(definitions) |-> definitions[k].glyph]
        markGlyphs == SelectSeq(glyphs, LAMBDA g : Include(ctx, include, g))
        baseGlyphs == SelectSeq([i \in 1..Len(attachments) |-> attachments[i].name],
                                LAMBDA g : g \notin Range(glyphs))
    IN  [Statement |-> "GlyphClassDefinition", name |-> lookupName,
         members |-> markGlyphs \o baseGlyphs]

\* _makeMarkToMarkLookup: the lookup in a list, the empty list for None.
MakeMarkToMarkLookup(ctx, anchorName, include, marksFilter, featureTag) ==
    LET attachments == IterAttachments(ctx, MarkToMarkAttachments(ctx, anchorName),
                                       include, marksFilter)
        lookupName == LookupName(featureTag, "mark2mark", anchorName)
        filteringClass == MakeMarkFilteringSetClass(ctx, lookupName, attachments,
                              ClassOf(ctx.markClasses, anchorName), include)
    IN  IF attachments = <<>> THEN <<>>
        ELSE <<LookupBlock(lookupName,
                  <<filteringClass,
                    [Statement |-> "LookupFlagStatement",
                     markFilteringSet |-> filteringClass.name]>>
                  \o [i \in 1..Len(attachments) |-> AsAST(ctx, attachments[i])])>>

\* The mark-to-mark lookups of a feature, by sorted anchor key.
MarkToMarkLookups(ctx, include, marksFilter, featureTag) ==
    LET keys == Sorted(MarkToMarkKeys(ctx))
    IN  Flatten([i \in 1..Len(keys) |->
            MakeMarkToMarkLookup(ctx, keys[i], include, marksFilter, featureTag)])

\* _makeMarkFeature: the feature in a list, the empty list for None.
MakeMarkFeature(ctx, include) ==
    LET baseLkp == MakeMarkLookup(ctx, LookupName(<<>>, "mark2base", <<>>),
                                  MakeMarkToBaseAttachments(ctx), include, "None")
        ligaLkp == MakeMarkLookup(ctx, LookupName(<<>>, "mark2liga", <<>>),
                                  MakeMarkToLigaAttachments(ctx), include, "None")
    IN  IF baseLkp = <<>> /\ ligaLkp = <<>> THEN <<>>
        ELSE <<FeatureBlock(TagMark, baseLkp \o ligaLkp)>>

\* _makeMkmkFeature.
MakeMkmkFeature(ctx, include) ==
    LET lookups == MarkToMarkLookups(ctx, include, "None", <<>>)
    IN  IF lookups = <<>> THEN <<>> ELSE <<FeatureBlock(TagMkmk, lookups)>>

\* A faulty _makeAbvmOrBlwmFeature: the mark-to-mark lookups come first.
C17_Mutant_MarkToMarkFirst(ctx, tag, include) ==
    LET marksFilter == IF tag = TagAbvm THEN "isAboveMark" ELSE "isBelowMark"
        baseLkp == MakeMarkLookup(ctx, LookupName(tag, "mark2base", <<>>),
                                  MakeMarkToBaseAttachments(ctx), include, marksFilter)
        ligaLkp == MakeMarkLookup(ctx, LookupName(tag, "mark2liga", <<>>),
                                  MakeMarkToLigaAttachments(ctx), include, marksFilter)
        mkmkLookups == MarkToMarkLookups(ctx, include, marksFilter, tag)
    IN  IF baseLkp = <<>> /\ ligaLkp = <<>> /\ mkmkLookups = <<>> THEN <<>>
        ELSE <<FeatureBlock(tag, mkmkLookups \o baseLkp \o ligaLkp)>>

\* _makeAbvmOrBlwmFeature.
MakeAbvmOrBlwmFeature(ctx, tag, include) ==
    LET marksFilter == IF tag = TagAbvm THEN "isAboveMark" ELSE "isBelowMark"
        baseLkp == MakeMarkLookup(ctx, LookupName(tag, "mark2base", <<>>),
                                  MakeMarkToBaseAttachments(ctx), include, marksFilter)
        ligaLkp == MakeMarkLookup(ctx, LookupName(tag, "mark2liga", <<>>),
                                  MakeMarkToLigaAttachments(ctx), include, marksFilter)
        mkmkLookups == MarkToMarkLookups(ctx, include, marksFilter, tag)
    IN  IF baseLkp = <<>> /\ ligaLkp = <<>> /\ mkmkLookups = <<>> THEN <<>>
        ELSE <<FeatureBlock(tag, baseLkp \o ligaLkp \o mkmkLookups)>>

\* _makeFeatures: the values of the features dict.
MakeFeatures(ctx) ==
    (IF TagMark \in ctx.todo THEN MakeMarkFeature(ctx, "isNotIndic") ELSE <<>>)
    \o (IF TagMkmk \in ctx.todo THEN MakeMkmkFeature(ctx, "isNotIndic") ELSE <<>>)
    \o (IF TagAbvm \in ctx.todo /\ ctx.indicGlyphs # {}
        THEN MakeAbvmOrBlwmFeature(ctx, TagAbvm, "isIndic") ELSE <<>>)
    \o (IF TagBlwm \in ctx.todo /\ ctx.indicGlyphs # {}
        THEN MakeAbvmOrBlwmFeature(ctx, TagBlwm, "isIndic") ELSE <<>>)

\* sorted(features.items()): the features by tag.
SortedFeatures(features) ==
    LET tags == Sorted({features[i].name : i \in 1..Len(features)})
    IN  [i \in 1..Len(tags) |->
            features[CHOOSE k \in 1..Len(features) : features[k].name = tags[i]]]

Comment(text) == [Statement |-> "Comment", text |-> text]

---------------------------------------------------------------------------
(* The mark feature writer: the fonts and feature files of the model *)

MaxNameLen == 4
MaxGlyphs == 3

\* The characters of the anchor names that are tried one by one.
NameChars == {"_", "t", "0", "1", "2"}

AnchorNames == UNION {[1..n -> NameChars] : n \in 0..MaxNameLen}

WriterGlyph(name, glyphAnchors) == [name |-> name, anchors |-> glyphAnchors]

\* A glyph with one anchor of any name, and a mark for the key "t".
NamedGlyphs ==
    {<<WriterGlyph(<<"g">>, <<Anchor(anchorName, 1, 3)>>),
       WriterGlyph(<<"m">>, <<Anchor(Mark(<<"t">>), 0, 3)>>)>> :
        anchorName \in AnchorNames}

\* The glyphs the fonts are made of: a base, a ligature with anchors on its
\* first and third component, a ligature with an anchor without key, two
\* marks, and a mark with a numbered anchor and two anchors "_top".
GlyphPool ==
    {WriterGlyph(<<"a">>, <<Anchor(top, 1, 3), Anchor(bottom, 1, 0)>>),
     WriterGlyph(<<"f", "_", "f", "_", "i">>,
                 <<Anchor(Sub(top, <<"1">>), 1, 3), Anchor(Sub(top, <<"3">>), 7, 3)>>),
     WriterGlyph(<<"f", "_", "i">>,
                 <<Anchor(Sub(top, <<"2">>), 4, 3), Anchor(Sub(bottom, <<"2">>), 4, 0),
                   Anchor(<<"_", "2">>, 0, 0), Anchor(Sub(top, <<"1">>), 1, 2)>>),
     WriterGlyph(<<"m">>, <<Anchor(Mark(top), 0, 3), Anchor(top, 0, 5)>>),
     WriterGlyph(<<"n">>, <<Anchor(Mark(bottom), 0, 0), Anchor(bottom, 0, 2),
                            Anchor(top, 0, 1)>>),
     WriterGlyph(<<"q">>, <<Anchor(Mark(top), 9, 9), Anchor(Sub(top, <<"1">>), 0, 5),
                            Anchor(Mark(top), 0, 3)>>)}

\* The ordered glyph sets: up to MaxGlyphs glyphs of the pool in any order.
GlyphOrders ==
    UNION {{order \in [1..n -> GlyphPool] :
               \A i, j \in 1..n : order[i] = order[j] => i = j} : n \in 1..MaxGlyphs}

\* ctx.todo: the tags of the writer that the feature file does not have.
TodoChoices ==
    {{TagMark, TagMkmk, TagAbvm, TagBlwm}, {TagAbvm, TagBlwm}, {TagMark, TagMkmk}}

\* The Indic glyphs of a font: none, the base and the first top mark, or all.
IndicChoices(glyphs) ==
    LET names == {glyphs[g].name : g \in 1..Len(glyphs)}
    IN  {{}, names \cap {<<"a">>, <<"m">>}, names}

MarkClassStatement(className, definition) ==
    [Statement |-> "MarkClassDefinition", markClass |-> className,
     glyph |-> definition.glyph, x |-> definition.x, y |-> definition.y]

\* A feature file with the mark classes given: every definition is a
\* statement of the file.
FeaFile(markClasses) ==
    [statements |-> Flatten([i \in 1..Len(markClasses) |->
         [k \in 1..Len(markClasses[i].definitions) |->
             MarkClassStatement(markClasses[i].name, markClasses[i].definitions[k])]]),
     markClasses |-> markClasses]

\* The feature files the writer is given: an empty one; one that defines the
\* mark m in MC_top where the font has it; one that defines it elsewhere; one
\* that also has a class MC_top_1.
FeaFiles ==
    {FeaFile(<<>>),
     FeaFile(<<MarkClass(ClassNameOf(Mark(top)),
                         <<MarkClassDefinition(<<"m">>, 0, 3)>>)>>),
     FeaFile(<<MarkClass(ClassNameOf(Mark(top)),
                         <<MarkClassDefinition(<<"m">>, 9, 9)>>)>>),
     FeaFile(<<MarkClass(ClassNameOf(Mark(top)),
                         <<MarkClassDefinition(<<"m">>, 9, 9)>>),
               MarkClass(ClassNameOf(Mark(top)) \o <<"_", "1">>,
                         <<MarkClassDefinition(<<"k">>, 2, 3)>>)>>)}

\* font.info.unitsPerEm of the fonts: odd, so that half of it is not whole.
UnitsPerEm == 5

Ufo(glyphs, indicGlyphs, todoTags) ==
    [glyphs |-> glyphs, indicGlyphs |-> indicGlyphs, todo |-> todoTags,
     unitsPerEm |-> UnitsPerEm]

---------------------------------------------------------------------------
(* The mark feature writer: the state machine *)

\* A writer before setContext, given a feature file.
NewWriter(given) ==
    [phase |-> "new", given |-> given, anchorLists |-> <<>>, anchorPairs |-> {},
     markGlyphNames |-> {}, pending |-> <<>>, group |-> <<>>, className |-> <<>>,
     markClasses |-> {}, newClassDefs |-> <<>>, features |-> <<>>,
     result |-> "none", error |-> "none"]

\* No filter runs.
NoFilter ==
    /\ font = MakeFont(<<>>)
    /\ options = Options(<<>>, {})
    /\ anchors = font.anchors
    /\ context = [processed |-> {}, attachments |-> <<>>, modified |-> {}]
    /\ todo = {}
    /\ stack = <<>>
    /\ phase = "idle"
    /\ run = 1
    /\ error = "none"
    /\ warnings = {}
    /\ runStart = font.anchors
    /\ firstRun = font.anchors
    /\ lastFinish = NoFinish

WriterInit ==
    /\ NoFilter
    /\ \/ /\ \E glyphs \in NamedGlyphs :
                ufo = Ufo(glyphs, {}, {TagMark, TagMkmk, TagAbvm, TagBlwm})
          /\ feaFile = FeaFile(<<>>)
       \/ /\ \E glyphs \in GlyphOrders :
                \E indicGlyphs \in IndicChoices(glyphs) :
                    \E todoTags \in TodoChoices :
                        ufo = Ufo(glyphs, indicGlyphs, todoTags)
          /\ feaFile \in FeaFiles
          /\ feaFile # FeaFile(<<>>) => ufo.todo = {TagMark, TagMkmk, TagAbvm, TagBlwm}
    /\ writer = NewWriter(feaFile)

\* setContext: the anchor lists and the anchor pairs of the font.
WriterSetContext ==
    /\ writer.phase = "new"
    /\ AnchorError(ufo.glyphs) = "none"
    /\ writer' = [writer EXCEPT
                     !.phase = "context",
                     !.anchorLists = GetAnchorLists(ufo.glyphs),
                     !.anchorPairs = GetAnchorPairs(GetAnchorLists(ufo.glyphs))]
    /\ UNCHANGED <<filterVars, ufo, feaFile>>

\* setContext: NamedAnchor raises on an anchor name.
WriterRaise ==
    /\ writer.phase = "new"
    /\ AnchorError(ufo.glyphs) # "none"
    /\ writer' = [writer EXCEPT !.phase = "failed", !.error = AnchorError(ufo.glyphs)]
    /\ UNCHANGED <<filterVars, ufo, feaFile>>

\* shouldContinue: no anchor pairs, the writer is skipped and write() returns
\* False.  (ctx.todo is not empty.)
SkipWrite ==
    /\ writer.phase = "context"
    /\ writer.anchorPairs = {}
    /\ writer' = [writer EXCEPT !.phase = "done", !.result = "False"]
    /\ UNCHANGED <<filterVars, ufo, feaFile>>

\* _write begins: _pruneUnusedAnchors, and _makeMarkClassDefinitions up to its
\* loops.
BeginWrite ==
    /\ writer.phase = "context"
    /\ writer.anchorPairs # {}
    /\ LET pruned == PruneUnusedAnchors(writer.anchorLists, writer.anchorPairs)
       IN  writer' = [writer EXCEPT
               !.phase = "classes",
               !.anchorLists = pruned,
               !.markGlyphNames = MarkGlyphNames(pruned, writer.anchorPairs),
               !.pending = GroupMarkGlyphsByAnchor(pruned, writer.anchorPairs)]
    /\ UNCHANGED <<filterVars, ufo, feaFile>>

\* The class name _makeMarkClassDefinitions asks for next: the one of the mark
\* anchor name, or the one the last definition of this name went to.
RequestedClassName ==
    IF Head(writer.pending).markAnchorName # writer.group
    THEN ClassNameOf(Head(writer.pending).markAnchorName)
    ELSE writer.className

\* One turn of the inner loop of _makeMarkClassDefinitions.
MakeMarkClassDefinition ==
    /\ writer.phase = "classes"
    /\ writer.pending # <<>>
    /\ LET next == Head(writer.pending)
           mcd == DefineMarkClass(feaFile.markClasses, RequestedClassName,
                                  next.glyphName, next.anchor.x, next.anchor.y)
       IN  /\ feaFile' = [feaFile EXCEPT !.markClasses = mcd.markClasses]
           /\ writer' = [writer EXCEPT
                  !.pending = Tail(@),
                  !.group = next.markAnchorName,
                  !.className = mcd.className,
                  !.markClasses = {pair \in @ : pair[1] # next.anchor.key}
                                      \cup {<<next.anchor.key, mcd.className>>},
                  !.newClassDefs =
                      IF mcd.defined
                      THEN Append(@, MarkClassStatement(mcd.className,
                               MarkClassDefinition(next.glyphName, next.anchor.x,
                                                   next.anchor.y)))
                      ELSE @]
    /\ UNCHANGED <<filterVars, ufo>>

\* The context _makeFeatures reads.
WriterContext ==
    [anchorLists |-> writer.anchorLists,
     markGlyphNames |-> writer.markGlyphNames,
     markClasses |-> writer.markClasses,
     feaMarkClasses |-> feaFile.markClasses,
     indicGlyphs |-> ufo.indicGlyphs,
     todo |-> ufo.todo,
     threshold |-> GetVerticalThreshold(ufo.unitsPerEm)]

\* _write: no feature was made.
ReturnFalse ==
    /\ writer.phase = "classes"
    /\ writer.pending = <<>>
    /\ MakeFeatures(WriterContext) = <<>>
    /\ writer' = [writer EXCEPT !.phase = "done", !.result = "False"]
    /\ UNCHANGED <<filterVars, ufo, feaFile>>

\* _write: the class definitions, an empty comment and the features are added
\* to the feature file.
WriteFeatures ==
    /\ writer.phase = "classes"
    /\ writer.pending = <<>>
    /\ LET features == MakeFeatures(WriterContext)
       IN  /\ features # <<>>
           /\ feaFile' = [feaFile EXCEPT !.statements =
                             @ \o writer.newClassDefs \o <<Comment("")>>
                               \o SortedFeatures(features)]
           /\ writer' = [writer EXCEPT !.phase = "done", !.result = "True",
                                       !.features = features]
    /\ UNCHANGED <<filterVars, ufo>>

WriterNext ==
    \/ WriterSetContext
    \/ WriterRaise
    \/ SkipWrite
    \/ BeginWrite
    \/ MakeMarkClassDefinition
    \/ ReturnFalse
    \/ WriteFeatures

WriterSpec == WriterInit /\ [][WriterNext]_vars

---------------------------------------------------------------------------
(* Properties *)

IsPrefix(s, t) == Len(s) <= Len(t) /\ SubSeq(t, 1, Len(s)) = s

\* The anchor a translated component gives: the position moved by (dx, dy).
Translated(component, a) ==
    Anchor(a.name, a.x + component.transformation[5], a.y + component.transformation[6])

IsTranslation(component) == SubSeq(component.transformation, 1, 4) = <<1, 0, 0, 1>>

\* C1: a second run of the filter over the propagated font appends no anchor
\* to any glyph: from the end of the first run on, every glyph has the anchors
\* it had at the end of the first run.
\* It is stated for the runs that infer their attachments, where the registry
\* is the same in every run.
C1_SecondRunAppendsNothing ==
    (run >= 2 /\ options.attachments = <<>>) => anchors = firstRun

\* C2: propagating a glyph terminates on every font, fonts with cyclic
\* component references included: no run ends in the unbounded recursion of
\* the category classification, which Python reports as RecursionError.
C2_PropagationTerminates == error # "RecursionError"

\* The case of C3: the glyph finished last is a base-category composite without
\* anchors of its own, made of two translated glyphs without components: one
\* without mark anchors that has "top", one with exactly "_top" and "top"; the
\* attachments of the run pair "top" with "_top".
C3_Case ==
    /\ lastFinish.glyph # ""
    /\ lastFinish.category = "base"
    /\ lastFinish.before = <<>>
    /\ LET cs == font.components[lastFinish.glyph]
           atts == context.attachments
           at == GetAnchorAttachment(atts, top)
       IN  /\ Len(cs) = 2
           /\ \A i \in 1..2 : /\ cs[i].baseGlyph \in glyphSet
                              /\ font.components[cs[i].baseGlyph] = <<>>
                              /\ IsTranslation(cs[i])
           /\ at # 0
           /\ top \in atts[at].base
           /\ Mark(top) \in atts[at].mark
           /\ GetAnchorAttachment(atts, Mark(top)) = at
           /\ \E b \in 1..2 :
                 /\ top \in NamesOf(anchors[cs[b].baseGlyph])
                 /\ \A n \in NamesOf(anchors[cs[b].baseGlyph]) : ~MarkAnchorName(n)
                 /\ NamesOf(anchors[cs[3 - b].baseGlyph]) = {Mark(top), top}

\* The base component and the mark component of the case.
C3_Base ==
    LET cs == font.components[lastFinish.glyph]
    IN  cs[CHOOSE b \in 1..2 : \A n \in NamesOf(anchors[cs[b].baseGlyph]) : ~MarkAnchorName(n)]

C3_Mark ==
    LET cs == font.components[lastFinish.glyph]
    IN  cs[CHOOSE m \in 1..2 : Mark(top) \in NamesOf(anchors[cs[m].baseGlyph])]

\* The mark's own "top", translated.
C3_MarkTop ==
    {Translated(C3_Mark, a) : a \in {a \in Range(anchors[C3_Mark.baseGlyph]) : a.name = top}}

\* C3 (amended): in the case above the base's "top" and the mark's "_top" are
\* removed as an attached pair and neither is appended; the mark's own "top" is
\* appended at its translated position; of the base's other anchors, those
\* that have an attachment and are no base name of the attachment of "top" are
\* appended at their translated positions, and the others (such as "top_viet")
\* are not appended.  adieresis = a + dieresiscomb shifted by (175, 0) gets exactly
\* bottom = (175, 0) and top = (175, 480).
C3_AttachedPairRemoved ==
    /\ C3_Case =>
          LET atts == context.attachments
              at == GetAnchorAttachment(atts, top)
              kept == {a \in Range(anchors[C3_Base.baseGlyph]) :
                          /\ GetAnchorAttachment(atts, a.name) # 0
                          /\ a.name \notin atts[at].base}
              expected == {Translated(C3_Base, a) : a \in kept} \cup C3_MarkTop
          IN  /\ Range(lastFinish.appended) = expected
              /\ Len(lastFinish.appended) = Cardinality(expected)
              /\ anchors[lastFinish.glyph] = lastFinish.appended
    /\ (font = TestFont /\ lastFinish.glyph = "adieresis") =>
          anchors["adieresis"] = <<Anchor(bottom, 175, 0), Anchor(top, 175, 480)>>

\* C3 as stated: in the case above the pair is removed, the mark's own "top"
\* is appended, and every other anchor of the base is appended at its
\* translated position.
C3_OtherBaseAnchorsAppended ==
    C3_Case =>
        LET others == {a \in Range(anchors[C3_Base.baseGlyph]) : a.name # top}
            expected == {Translated(C3_Base, a) : a \in others} \cup C3_MarkTop
        IN  Range(lastFinish.appended) = expected

\* adieresis of the test font has been propagated.
C3_Witness ==
    /\ C3_Case
    /\ font = TestFont
    /\ lastFinish.glyph = "adieresis"
    /\ anchors["adieresis"] = <<Anchor(bottom, 175, 0), Anchor(top, 175, 480)>>

\* C4: propagation only appends: the anchors a glyph had before the run, and
\* the anchors it had in the font as loaded, are the prefix of its anchor
\* list, with names, positions and order unchanged; a glyph without components
\* is not changed at all.
C4_OnlyAppends ==
    \A g \in glyphSet :
        /\ IsPrefix(runStart[g], anchors[g])
        /\ IsPrefix(font.anchors[g], anchors[g])
        /\ font.components[g] = <<>> => anchors[g] = font.anchors[g]

\* A glyph that had anchors before the run has been given more.
C4_Witness ==
    \E g \in glyphSet : runStart[g] # <<>> /\ Len(anchors[g]) > Len(runStart[g])

\* C5: local anchors always win: no anchor appended to a composite has the
\* name of an anchor the glyph had before it was propagated.
C5_LocalAnchorsWin ==
    \A k \in 1..Len(lastFinish.appended) :
        lastFinish.appended[k].name \notin NamesOf(lastFinish.before)

\* The anchors of the ligature a_a of the test font.
C6_Expected ==
    <<Anchor(Sub(bottom, <<"1">>), 175, 0), Anchor(Sub(bottom, <<"2">>), 525, 0),
      Anchor(Sub(top, <<"1">>), 175, 300), Anchor(Sub(top, <<"2">>), 525, 300)>>

\* C6: the anchors appended to a ligature-category composite are the anchors
\* that survive the pruning, each renamed to name_i, i being 1 plus the number
\* of survivors of that name before it in component order; a_a = a + a shifted
\* by (350, 0) gets exactly top_1, top_2, bottom_1 and bottom_2 at (175, 300),
\* (525, 300), (175, 0) and (525, 0).
C6_LigatureAnchorsNumbered ==
    /\ lastFinish.category = "ligature" =>
          LET s == lastFinish.survivors
              occurrence(k) ==
                  1 + Cardinality({j \in 1..(k - 1) : s[j].anchor.name = s[k].anchor.name})
              renamed(k) == Anchor(s[k].anchor.name \o <<"_">> \o Dec(occurrence(k)),
                                   s[k].anchor.x, s[k].anchor.y)
              times(a, t) == Cardinality({j \in 1..Len(t) : t[j] = a})
          IN  /\ Len(lastFinish.appended) = Len(s)
              /\ \A k \in 1..Len(s) :
                    times(renamed(k), lastFinish.appended)
                        = Cardinality({j \in 1..Len(s) : renamed(j) = renamed(k)})
    /\ (font = TestFont /\ lastFinish.glyph = "a_a") =>
          /\ lastFinish.appended = C6_Expected
          /\ lastFinish.before = <<>> => anchors["a_a"] = C6_Expected

\* a_a of the test font has been propagated.
C6_Witness ==
    /\ font = TestFont
    /\ lastFinish.glyph = "a_a"
    /\ lastFinish.category = "ligature"
    /\ anchors["a_a"] = C6_Expected

\* C7: without explicit configuration the attachments of a run are inferred
\* from the anchor names of the font: a name with the mark prefix is a mark
\* member under the name without the prefix, a name with "_" after a non-empty
\* prefix is a base member under the text before the last "_", any other name
\* is a base member under itself; the keys with a base and a mark member make
\* the attachments, and a lookup of a name finds the attachment that holds it.
\* The names of the font of test_get_anchor_attachment give exactly
\* {top, top_1, top_2, top_viet | _top} and {bottom | _bottom}.
C7_AttachmentsInferred ==
    /\ (options.attachments = <<>> /\ (phase # "idle" \/ run > 1)) =>
          LET atts == context.attachments
              names == UNION {NamesOf(runStart[g]) : g \in glyphSet}
              isMark(n) == n[1] = "_"
              lastSep(n) == CHOOSE k \in 2..Len(n) :
                                n[k] = "_" /\ \A j \in (k + 1)..Len(n) : n[j] # "_"
              key(n) == IF isMark(n) THEN SubSeq(n, 2, Len(n))
                        ELSE IF \E k \in 2..Len(n) : n[k] = "_"
                             THEN SubSeq(n, 1, lastSep(n) - 1)
                        ELSE n
              members(k, mark) == {n \in names : key(n) = k /\ isMark(n) = mark}
              all == {[base |-> members(key(n), FALSE), mark |-> members(key(n), TRUE)] :
                         n \in names}
              expected == {at \in all : at.base # {} /\ at.mark # {}}
              held(n) == \E at \in expected : n \in at.base \cup at.mark
              found(n) == GetAnchorAttachment(atts, n)
          IN  /\ Range(atts) = expected
              /\ Len(atts) = Cardinality(expected)
              /\ \A n \in names :
                    IF held(n)
                    THEN found(n) # 0 /\ n \in atts[found(n)].base \cup atts[found(n)].mark
                    ELSE found(n) = 0
    /\ (font = AttachmentTestFont /\ phase # "idle") =>
          Range(context.attachments) =
              {Attachment({top, Sub(top, <<"1">>), Sub(top, <<"2">>), Sub(top, viet)},
                          {Mark(top)}),
               Attachment({bottom}, {Mark(bottom)})}

\* The attachments of the font of test_get_anchor_attachment have been
\* inferred, and "top_viet" is found with "top".
C7_Witness ==
    /\ font = AttachmentTestFont
    /\ phase = "running"
    /\ Len(context.attachments) = 2
    /\ GetAnchorAttachment(context.attachments, Sub(top, viet)) # 0
    /\ GetAnchorAttachment(context.attachments, Sub(top, viet))
           = GetAnchorAttachment(context.attachments, top)

\* C8: every attachment of the registry of a run has a base name and a mark
\* name, whether the registry is inferred or taken from explicit records.
C8_AttachmentsNonEmpty ==
    \A k \in 1..Len(context.attachments) :
        context.attachments[k].base # {} /\ context.attachments[k].mark # {}

\* C9: the anchors a run appends to a glyph are in ascending order of
\* (name, x, y), names compared as strings after the renaming: the order is
\* fixed by the anchors alone, whatever the order of their collection.
C9_AppendedInOrder ==
    \A g \in glyphSet :
        \A i, j \in (Len(runStart[g]) + 1)..Len(anchors[g]) :
            i < j =>
                LET a == anchors[g][i]
                    b == anchors[g][j]
                IN  \/ StrLess(a.name, b.name)
                    \/ /\ a.name = b.name
                       /\ a.x < b.x \/ (a.x = b.x /\ a.y <= b.y)

\* Anchors collected in another order than the one they are appended in.
C9_Witness ==
    /\ lastFinish.category # "ligature"
    /\ Len(lastFinish.appended) >= 2
    /\ lastFinish.appended
           # [k \in 1..Len(lastFinish.survivors) |-> lastFinish.survivors[k].anchor]

\* The components of the glyph finished last that are in the glyph set.
C10_Present ==
    SelectSeq(font.components[lastFinish.glyph], LAMBDA c : c.baseGlyph \in glyphSet)

\* What the glyph finished last collects from its present components.
C10_FromPresent ==
    Flatten([k \in 1..Len(C10_Present) |->
        ComponentAnchors(C10_Present[k],
                         IF C10_Present[k].baseGlyph = lastFinish.glyph
                         THEN lastFinish.before
                         ELSE anchors[C10_Present[k].baseGlyph],
                         context.attachments)])

\* The glyph finished last has a warning for each missing component and has
\* collected the anchors of the others; emacron of the test font, whose
\* component e is missing, gets top = (175, 480) from macroncomb.
C10_Received ==
    /\ lastFinish.glyph # "" =>
          /\ \A k \in 1..Len(font.components[lastFinish.glyph]) :
                LET base == font.components[lastFinish.glyph][k].baseGlyph
                IN  base \notin glyphSet => <<base, lastFinish.glyph>> \in warnings
          /\ lastFinish.collected = C10_FromPresent
    /\ (font = TestFont /\ options.include = {"emacron"}) => error = "none"
    /\ (font = TestFont /\ lastFinish.glyph = "emacron") =>
          /\ anchors["emacron"] = <<Anchor(top, 175, 480)>>
          /\ <<"e", "emacron">> \in warnings

\* A step from a state whose current component is missing logs the warning,
\* moves on to the next component and raises nothing.
C10_Skipped ==
    (Collecting /\ CurrentComponent.baseGlyph \notin glyphSet) =>
        /\ error' = error
        /\ phase' = "running"
        /\ anchors' = anchors
        /\ todo' = todo
        /\ <<CurrentComponent.baseGlyph, Top.glyph>> \in warnings'
        /\ stack' = SetTop([Top EXCEPT !.i = @ + 1])

\* C10: a component whose base glyph is not in the glyph set is skipped with a
\* warning and raises nothing; the composite still receives the anchors of its
\* other components, and the run goes on.
C10_MissingComponentSkipped == []C10_Received /\ [][C10_Skipped]_vars

\* A composite with a missing component was given anchors, and the run went on
\* to the next glyph.
C10_Witness ==
    /\ \E w \in warnings : w[2] = "x"
    /\ Len(anchors["x"]) > Len(runStart["x"])
    /\ lastFinish.glyph = "y"
    /\ error = "none"

\* The anchors the glyphs had when the category of the glyph finished last was
\* computed: its own anchors are the ones it had before the appending.
C11_AnchorsThen ==
    [g \in glyphSet |-> IF g = lastFinish.glyph THEN lastFinish.before ELSE anchors[g]]

\* The categories found for the components of the glyph finished last that are
\* in the glyph set.
C11_ComponentCategories ==
    {GetGlyphCategory(font, C11_AnchorsThen, context.attachments,
                      [glyph |-> c.baseGlyph, path |-> {}]) :
        c \in {d \in Range(font.components[lastFinish.glyph]) : d.baseGlyph \in glyphSet}}
    \ {""}

\* C11: the category that selects the pruning of a glyph is the category of the
\* lib when there is one; otherwise "mark" or "base" by the code point when the
\* glyph has one; otherwise "mark" when an anchor of the glyph is in the mark
\* set of an attachment; otherwise what the components say ("mark" when every
\* component category found is "mark"); otherwise unknown.
C11_CategoryOrder ==
    lastFinish.glyph # "" =>
        LET g == lastFinish.glyph
        IN  lastFinish.category =
                IF font.categories[g] # "" THEN font.categories[g]
                ELSE IF font.unicode[g] # 0
                     THEN IF UnicodeIsMark(font.unicode[g]) THEN "mark" ELSE "base"
                ELSE IF \E a \in Range(lastFinish.before) :
                            \E k \in 1..Len(context.attachments) :
                                a.name \in context.attachments[k].mark
                     THEN "mark"
                ELSE IF C11_ComponentCategories \subseteq {"mark"} THEN "mark"
                ELSE ""

\* A glyph with a category in the lib that its code point contradicts was
\* finished with the category of the lib.
C11_Witness ==
    /\ lastFinish.glyph = "x"
    /\ font.categories["x"] = "ligature"
    /\ font.unicode["x"] = 97
    /\ lastFinish.category = "ligature"

\* The selected glyphs whose anchor list is longer than at the start of the run.
C12_Grown ==
    {g \in glyphSet \cap options.include : Len(anchors[g]) > Len(runStart[g])}

\* C12: when a run has returned, the set it returns is exactly the set of the
\* selected glyphs whose anchor list grew during the run, whatever the order
\* the glyphs were visited in.
C12_ModifiedIsGrown ==
    (phase = "idle" /\ run > 1) => context.modified = C12_Grown

\* The anchors the glyph finished last takes from its components, each with
\* the component it comes from, in the order they are collected.
C13_Sources ==
    Flatten([k \in 1..Len(C10_Present) |->
        [j \in 1..Len(C11_AnchorsThen[C10_Present[k].baseGlyph]) |->
            [component |-> C10_Present[k],
             a |-> C11_AnchorsThen[C10_Present[k].baseGlyph][j]]]])

\* The name of an anchor in a component with the transformation t: left and
\* right corners are swapped under a negative horizontal scale, and nothing
\* else changes.
C13_Name(t, name) ==
    IF t[1] >= 0 THEN name
    ELSE IF name = topleft THEN topright
    ELSE IF name = topright THEN topleft
    ELSE IF name = bottomleft THEN bottomright
    ELSE IF name = bottomright THEN bottomleft
    ELSE name

C22_Opposites(attachment) ==
    {Lookup(VERTICAL_OPPOSITES, n) :
        n \in {b \in attachment.base : InDict(VERTICAL_OPPOSITES, b)}}
    \cup {Lookup(HORIZONTAL_OPPOSITES, n) :
             n \in {b \in attachment.base : InDict(HORIZONTAL_OPPOSITES, b)}}

\* The attachments with an opposite among the names.
C22_Opposed(atts, names) ==
    {k \in 1..Len(atts) : C22_Opposites(atts[k]) \cap names # {}}

\* A mark composite has been finished: nothing appended is of an attachment
\* with an opposite among the anchors the glyph had.
C22_Finish ==
    (lastFinish' # lastFinish /\ lastFinish'.category = "mark") =>
        /\ \A a \in Range(lastFinish'.appended) :
              GetAnchorAttachment(context.attachments, a.name)
                  \notin C22_Opposed(context.attachments, NamesOf(lastFinish'.before))
        /\ bottom \in NamesOf(lastFinish'.before) =>
              NamesOf(lastFinish'.appended) \cap {top, Mark(top)} = {}

\* C22: a mark composite gets no propagated anchor of an attachment with a
\* base name whose vertical or horizontal opposite is an anchor of the glyph,
\* the mark anchors of the attachment included: a mark with bottom gets
\* neither top nor _top, also from a flipped component.
C22_OppositesDropped == [][C22_Finish]_vars

\* A mark composite with bottom has been finished whose vertically flipped
\* component brought top and _top; none was appended.
C22_Witness ==
    /\ lastFinish.category = "mark"
    /\ bottom \in NamesOf(lastFinish.before)
    /\ \E i, j \in 1..Len(lastFinish.collected) :
          /\ lastFinish.collected[i].anchor.name = top
          /\ lastFinish.collected[j].anchor.name = Mark(top)
          /\ lastFinish.collected[i].component.transformation[4] < 0
    /\ NamesOf(lastFinish.appended) \cap {top, Mark(top)} = {}


\* The list _prune_attached_anchors is called with for the glyph on top of
\* the stack, and the mode it is called in.
C23_Input ==
    LET names == NamesOf(anchors[Top.glyph])
        kept == PruneUndefinedAndLocal(Top.pas, names)
    IN  IF Result.category = "mark"
        THEN PruneOppositeMarkAnchors(names, kept, context.attachments)
        ELSE kept

C23_Mode == IF Result.category = "mark" THEN "mark" ELSE ""

\* The matched pairs of the list: every mark anchor of a mark component with
\* the nearest base anchor of its attachment from another component.
C23_Pairs == Range(Matches(C23_Input, context.attachments))

\* No two matched pairs meet in one component's base anchors of an attachment.
C23_NoSharedBase ==
    \A m1, m2 \in C23_Pairs :
        (m1.pa1 # m2.pa1) =>
            ~(/\ m1.pa2.component = m2.pa2.component
              /\ m1.pa2.attachment = m2.pa2.attachment)

\* C23: each mark anchor of a mark component is matched with the nearest base
\* anchor of its attachment from another component; outside mark mode both
\* members of every matched pair leave the list, together with the other base
\* anchors of the attachment from the matched base anchor's component, and
\* nothing else leaves it; in mark mode, of the pairs of one mark-anchor name,
\* the farthest pair stays and every nearer pair leaves.
C23_PairsPruned ==
    (Collected /\ Result.category # "RecursionError") =>
        LET atts == context.attachments
            out == PruneAttachedAnchors(C23_Input, C23_Mode, atts)
            sibling(pa, m) == /\ pa.component = m.pa2.component
                              /\ pa.anchor.name \in atts[m.pa2.attachment].base
            farther(m) == {o \in C23_Pairs : /\ o.pa1.anchor.name = m.pa1.anchor.name
                                             /\ o.dist > m.dist}
            rivals(m) == {o \in C23_Pairs : /\ o.pa1.anchor.name = m.pa1.anchor.name
                                            /\ o # m /\ o.dist >= m.dist}
        IN  /\ \A m \in C23_Pairs :
                /\ IsCandidate(m.pa1, m.pa2, atts)
                /\ \A k \in 1..Len(C23_Input) :
                       IsCandidate(m.pa1, C23_Input[k], atts) =>
                           m.dist <= Distance(m.pa1.anchor, C23_Input[k].anchor)
            /\ out.error = "none"
            /\ C23_Mode = "" =>
                   out.pas = SelectSeq(C23_Input,
                                 LAMBDA pa : \A m \in C23_Pairs :
                                     pa # m.pa1 /\ pa # m.pa2 /\ ~sibling(pa, m))
            /\ C23_Mode = "mark" =>
                   \A m \in C23_Pairs :
                       /\ rivals(m) = {} =>
                              Contains(out.pas, m.pa1) /\ Contains(out.pas, m.pa2)
                       /\ farther(m) # {} =>
                              ~Contains(out.pas, m.pa1) /\ ~Contains(out.pas, m.pa2)

\* The same with no base anchors shared between pairs.
C23_Unshared == (Collected /\ C23_NoSharedBase) => C23_PairsPruned

\* The glyph finished last has no category entry, no code point and no mark
\* anchor: its category comes from its components.
C24_Case ==
    /\ lastFinish.glyph # ""
    /\ font.categories[lastFinish.glyph] = ""
    /\ font.unicode[lastFinish.glyph] = 0
    /\ \A k \in 1..Len(lastFinish.before) :
           LET at == GetAnchorAttachment(context.attachments, lastFinish.before[k].name)
           IN  at = 0 \/ lastFinish.before[k].name \notin context.attachments[at].mark

\* C24: a glyph with no category entry, no code point and no mark anchor is a
\* mark through its components only when it has a component, every component
\* is found in the glyph set and every component is itself a mark.
C24_MarkByComponents ==
    (C24_Case /\ lastFinish.category = "mark") =>
        LET comps == font.components[lastFinish.glyph]
        IN  /\ comps # <<>>
            /\ \A i \in 1..Len(comps) :
                   /\ comps[i].baseGlyph \in glyphSet
                   /\ GetGlyphCategory(font, anchors, context.attachments,
                          [glyph |-> comps[i].baseGlyph, path |-> {}]) = "mark"

\* C25: the anchors appended to a composite come one by one from the collected
\* anchors that were left; each of these has a name that belongs to an
\* attachment, whatever the category of the composite; for a base or a
\* ligature none of them has a name of the mark set of its attachment.  A
\* ligature's appended anchors carry the name with its number, the others the
\* name itself.
C25_NoMarkNoUndefined ==
    (lastFinish.glyph # "") =>
        LET atts == context.attachments
            left == lastFinish.survivors
            from(a, pa) ==
                /\ a.x = pa.anchor.x
                /\ a.y = pa.anchor.y
                /\ IF lastFinish.category = "ligature"
                   THEN /\ Len(a.name) > Len(pa.anchor.name) + 1
                        /\ SubSeq(a.name, 1, Len(pa.anchor.name) + 1)
                               = pa.anchor.name \o <<"_">>
                   ELSE a.name = pa.anchor.name
        IN  /\ anchors[lastFinish.glyph] = lastFinish.before \o lastFinish.appended
            /\ Len(lastFinish.appended) = Len(left)
            /\ \A k \in 1..Len(lastFinish.appended) :
                   \E j \in 1..Len(left) : /\ from(lastFinish.appended[k], left[j])
                                           /\ Contains(lastFinish.collected, left[j])
            /\ \A j \in 1..Len(left) :
                   LET at == GetAnchorAttachment(atts, left[j].anchor.name)
                   IN  /\ at # 0
                       /\ lastFinish.category \in {"base", "ligature"} =>
                              left[j].anchor.name \notin atts[at].mark

\* A base or ligature composite has been finished with appended anchors; its
\* components brought an anchor whose name is in no attachment and a mark
\* anchor that the pruning of attached pairs left.
C25_Witness ==
    /\ lastFinish.glyph # ""
    /\ lastFinish.category \in {"base", "ligature"}
    /\ lastFinish.appended # <<>>
    /\ \E k \in 1..Len(lastFinish.collected) : lastFinish.collected[k].attachment = 0
    /\ LET atts == context.attachments
           attached == PruneAttachedAnchors(
                           PruneUndefinedAndLocal(lastFinish.collected,
                                                  NamesOf(lastFinish.before)),
                           "", atts).pas
       IN  \E k \in 1..Len(attached) :
               attached[k].anchor.name \in atts[attached[k].attachment].mark

\* No two anchors of the glyph have the same name.
C26_Distinct(anchorList) ==
    \A i, j \in 1..Len(anchorList) : anchorList[i].name = anchorList[j].name => i = j

\* C26: when no glyph had two anchors of one name at the start of a run, no
\* glyph has two anchors of one name once the run has returned.
C26_NoDuplicateNames ==
    (phase = "idle" /\ run > 1 /\ error = "none"
        /\ \A g \in glyphSet : C26_Distinct(runStart[g])) =>
            \A g \in glyphSet : C26_Distinct(anchors[g])

\* C27: the pruning of attached pairs completes without error for every list
\* of propagated anchors, also when two mark anchors have the same nearest
\* base anchor: no run ends with the ValueError of a second removal.
C27_PruningCompletes == error # "ValueError"

\* The glyphs of the font below g in the component graph, to depth n.
RECURSIVE C28_Below(_, _)
C28_Below(g, n) ==
    IF n = 0 THEN {}
    ELSE LET uses == {c.baseGlyph : c \in Range(font.components[g])} \cap glyphSet
         IN  uses \cup UNION {C28_Below(h, n - 1) : h \in uses}

\* The component graph of the font has no cycle.
C28_Acyclic == \A g \in glyphSet : g \notin C28_Below(g, Cardinality(glyphSet))

\* The anchors of g at the end of a run when every composite is computed once
\* from the final anchors of its components: a function of the font, of the
\* anchors at the start of the run and of the attachments alone.
RECURSIVE C28_Final(_)
C28_Final(g) ==
    LET comps == font.components[g]
        atts == context.attachments
        below == C28_Below(g, Cardinality(glyphSet))
        anch == [h \in glyphSet |-> IF h \in below THEN C28_Final(h) ELSE runStart[h]]
        found == SelectSeq(comps, LAMBDA c : c.baseGlyph \in glyphSet)
        pas == Flatten([k \in 1..Len(found) |->
                   ComponentAnchors(found[k], anch[found[k].baseGlyph], atts)])
        r == Propagation(font, anch, atts,
                         [glyph |-> g, i |-> Len(comps) + 1, pas |-> pas])
    IN  IF comps = <<>> THEN runStart[g] ELSE AppendAnchors(runStart[g], r.appended)

\* A run over every composite of the font has returned.
C28_Case ==
    /\ phase = "idle" /\ run > 1 /\ error = "none"
    /\ C28_Acyclic
    /\ \A g \in glyphSet : font.components[g] # <<>> => g \in options.include

C28_WitnessInnerFirst ==
    /\ C28_Case
    /\ options.include = glyphSet
    /\ "y" \in glyphSet /\ "x" \in glyphSet
    /\ \E i \in 1..Len(font.components["x"]) : font.components["x"][i].baseGlyph = "y"
    /\ anchors["x"] # runStart["x"]
    /\ "y" \in context.modified

---------------------------------------------------------------------------
(* Properties of the mark feature writer *)

\* The anchor names of the font the writer is given.
C14_GivenNames ==
    UNION {NamesOf(ufo.glyphs[g].anchors) : g \in 1..Len(ufo.glyphs)}

\* A numbered mark name, the bare mark prefix, a ligature index of 0.
C14_Rejected ==
    {<<"_", "t", "_", "1">>, <<"_">>, <<"t", "_", "0">>}

\* C14: building the named anchors of a font either raises, and then no
\* anchor is returned, or yields anchors in which a mark has no number and a
\* key that is not empty, and a number is at least 1; "_t_1", "_" and "t_0"
\* are each rejected with a ValueError.
C14_NamedAnchorValid ==
    /\ writer.phase \notin {"none", "new"} =>
          /\ writer.error # "none" <=> writer.phase = "failed"
          /\ writer.error # "none" => writer.anchorLists = <<>>
          /\ \A a \in Range(AllAnchors(writer.anchorLists)) :
                /\ a.isMark => (a.number = NoNumber /\ a.key # <<>>)
                /\ a.number # NoNumber => a.number[1] >= 1
                /\ a.isMark <=> StartsWith(a.name, <<"_">>) /\ a.number = NoNumber
    /\ (C14_GivenNames \cap C14_Rejected # {} /\ writer.phase \notin {"none", "new"}) =>
          /\ writer.phase = "failed"
          /\ writer.error = "ValueError"

\* The font had the anchor "_t_1", and the writer failed with a ValueError.
C14_Witness ==
    /\ <<"_", "t", "_", "1">> \in C14_GivenNames
    /\ writer.phase = "failed"
    /\ writer.error = "ValueError"
    /\ writer.anchorLists = <<>>


\* The glyphs of the filtered font as the writer reads them, in the order of
\* the font.
C15_GlyphOrder == <<"a", "v", "m", "n", "s", "x">>
C15_FilteredGlyphs ==
    [k \in 1..Len(C15_GlyphOrder) |->
        WriterGlyph(C15_GlyphOrder[k], anchors[C15_GlyphOrder[k]])]

\* _makeMarkToLigaAttachments on the filtered font.
C15_LigaAttachments ==
    LET anchorLists == GetAnchorLists(C15_FilteredGlyphs)
        anchorPairs == GetAnchorPairs(anchorLists)
        pruned == PruneUnusedAnchors(anchorLists, anchorPairs)
    IN  MakeMarkToLigaAttachments(
            [anchorLists |-> pruned,
             markGlyphNames |-> MarkGlyphNames(pruned, anchorPairs)])

\* The filter has run once over a ligature of three components.
C15_Filtered ==
    /\ font \in LigatureFonts
    /\ phase = "idle"
    /\ run = 2
    /\ error = "none"

\* C15: a ligature of three components has one mark-to-ligature rule with one
\* slot per component; slot i holds exactly the anchors of component i, and
\* the slot of a component without anchors is empty (null).  With top on
\* components 1 and 3 only there are three slots and slot 2 is null.
C15_OneSlotPerComponent ==
    C15_Filtered =>
        /\ Len(C15_LigaAttachments) = 1
        /\ C15_LigaAttachments[1].name = "x"
        /\ Len(C15_LigaAttachments[1].marks) = Len(font.components["x"])
        /\ \A i \in 1..Len(font.components["x"]) :
              {a.key : a \in Range(C15_LigaAttachments[1].marks[i])}
                  = {b.name : b \in Range(font.anchors[font.components["x"][i].baseGlyph])}


\* C16: a write that makes no feature returns False and leaves the feature
\* file as it was given: no statement and no mark class is added.
C16_FalseLeavesFeaFile ==
    writer.phase = "done" /\ writer.result = "False" => feaFile = writer.given


\* What the write has added to the statements of the feature file.
C17_Added ==
    SubSeq(feaFile.statements, Len(writer.given.statements) + 1,
           Len(feaFile.statements))

C17_Indices(statement) ==
    {k \in 1..Len(C17_Added) : C17_Added[k].Statement = statement}

\* base before liga before mark2mark.
C17_KindRank(kind) ==
    CASE kind = "mark2base" -> 1
      [] kind = "mark2liga" -> 2
      [] kind = "mark2mark" -> 3

\* The lookups of a feature block are in the order of their kinds, and the
\* mark-to-mark lookups in the order of their anchor keys.
C17_LookupsInOrder(block) ==
    \A i, j \in 1..Len(block.statements) :
        i < j =>
            /\ C17_KindRank(block.statements[i].name.kind)
                   <= C17_KindRank(block.statements[j].name.kind)
            /\ (block.statements[i].name.kind = "mark2mark"
                    /\ block.statements[j].name.kind = "mark2mark")
                  => StrLess(block.statements[i].name.anchorName,
                             block.statements[j].name.anchorName)

\* C17: the write adds all new mark class definitions first, then the feature
\* blocks by sorted tag (abvm, blwm, mark, mkmk); in a feature the
\* mark-to-mark lookups are sorted by anchor key, and the mark-to-base lookup
\* precedes the mark-to-ligature lookup, which precedes the mark-to-mark
\* lookups.
C17_OutputOrder ==
    writer.phase = "done" /\ writer.result = "True" =>
        /\ \A k \in 1..Len(writer.newClassDefs) : C17_Added[k] = writer.newClassDefs[k]
        /\ C17_Indices("MarkClassDefinition") = 1..Len(writer.newClassDefs)
        /\ C17_Indices("FeatureBlock") # {}
        /\ \A c \in C17_Indices("MarkClassDefinition") :
              \A f \in C17_Indices("FeatureBlock") : c < f
        /\ \A f, g \in C17_Indices("FeatureBlock") :
              f < g => StrLess(C17_Added[f].name, C17_Added[g].name)
        /\ \A f \in C17_Indices("FeatureBlock") :
              /\ C17_Added[f].name \in {TagAbvm, TagBlwm, TagMark, TagMkmk}
              /\ C17_LookupsInOrder(C17_Added[f])
        /\ StrLess(TagAbvm, TagBlwm) /\ StrLess(TagBlwm, TagMark)
        /\ StrLess(TagMark, TagMkmk)

\* A write that adds class definitions and three features or more, one of
\* them an abvm or blwm feature with a mark-to-base and a mark-to-mark lookup.
C17_Witness ==
    /\ writer.phase = "done" /\ writer.result = "True"
    /\ writer.newClassDefs # <<>>
    /\ Cardinality(C17_Indices("FeatureBlock")) >= 3
    /\ \E f \in C17_Indices("FeatureBlock") :
          /\ C17_Added[f].name \in {TagAbvm, TagBlwm}
          /\ \E i, j \in 1..Len(C17_Added[f].statements) :
                /\ C17_Added[f].statements[i].name.kind = "mark2base"
                /\ C17_Added[f].statements[j].name.kind = "mark2mark"


\* C18: the glyphs of every mark class the writer generates are emitted
\* sorted by glyph name, whatever the order of the glyphs in the font.
C18_MembersSorted ==
    \A i, j \in 1..Len(writer.newClassDefs) :
        (i < j /\ writer.newClassDefs[i].markClass = writer.newClassDefs[j].markClass)
            => StrLess(writer.newClassDefs[i].glyph, writer.newClassDefs[j].glyph)


\* The names of mark classes in use.
C19_ClassNames(markClasses) == {markClasses[k].name : k \in 1..Len(markClasses)}

\* What one call of _defineMarkClass, for the glyph and the anchor next in
\* turn and the class name asked for, does to the mark classes of the feature
\* file and to the new definitions.
C19_Step ==
    (writer.phase = "classes" /\ writer.pending # <<>>) =>
        LET next == Head(writer.pending)
            mcdef == MarkClassDefinition(next.glyphName, next.anchor.x, next.anchor.y)
            old == feaFile.markClasses
            new == feaFile'.markClasses
            i == ClassIndex(old, RequestedClassName)
            held == IF i = 0 THEN {}
                    ELSE {d \in Range(old[i].definitions) : d.glyph = next.glyphName}
        IN  /\ Len(new) >= Len(old)
            /\ \A k \in 1..Len(old) :
                  /\ new[k].name = old[k].name
                  /\ Len(new[k].definitions) >= Len(old[k].definitions)
                  /\ \A d \in 1..Len(old[k].definitions) :
                        new[k].definitions[d] = old[k].definitions[d]
            /\ mcdef \in held =>
                  /\ new = old
                  /\ writer'.newClassDefs = writer.newClassDefs
            /\ (held # {} /\ mcdef \notin held) =>
                  /\ Len(new) = Len(old) + 1
                  /\ new[Len(new)].name \notin C19_ClassNames(old)
                  /\ new[Len(new)].definitions = <<mcdef>>
                  /\ \A k \in 1..Len(old) : new[k] = old[k]
                  /\ writer'.newClassDefs =
                        Append(writer.newClassDefs,
                               MarkClassStatement(new[Len(new)].name, mcdef))

\* C19: adding a glyph with a position to a mark class that holds the glyph
\* with the same position changes nothing and makes no definition; when the
\* class holds the glyph with another position, a new class with a name not
\* in use receives the definition and the existing classes stay as they are;
\* no definition is ever overwritten or dropped.
C19_ForkOnConflict == [][C19_Step]_vars

\* A conflict has made a new class while the first name tried for it was
\* taken: of the two classes given, one holds a glyph with another position
\* than the class added for it.
C19_Witness ==
    /\ writer.phase = "done"
    /\ \E j \in (Len(writer.given.markClasses) + 1)..Len(feaFile.markClasses) :
          \E k \in 1..Len(writer.given.markClasses) :
              \E d \in Range(feaFile.markClasses[j].definitions) :
                  \E e \in Range(feaFile.markClasses[k].definitions) :
                      d.glyph = e.glyph /\ d # e
    /\ Len(writer.given.markClasses) = 2


\* The feature blocks of the feature file with a tag of the set.
C20_Blocks(tags) ==
    {feaFile.statements[k] : k \in {j \in 1..Len(feaFile.statements) :
        /\ feaFile.statements[j].Statement = "FeatureBlock"
        /\ feaFile.statements[j].name \in tags}}

\* The glyphs that the positioning rules of the blocks position.
C20_Positioned(blocks) ==
    UNION {UNION {{rule.glyph : rule \in {r \in Range(lookup.statements) :
                      r.Statement \in {"MarkBasePosStatement", "MarkMarkPosStatement",
                                       "MarkLigPosStatement"}}} :
                  lookup \in Range(block.statements)} :
           block \in blocks}

\* C20: mark and mkmk hold rules only for glyphs outside the Indic glyph set,
\* abvm and blwm only for glyphs inside it, so that no glyph is positioned in
\* both; abvm and blwm are made only when the Indic glyph set is not empty.
C20_IndicSplit ==
    /\ C20_Positioned(C20_Blocks({TagMark, TagMkmk})) \cap ufo.indicGlyphs = {}
    /\ C20_Positioned(C20_Blocks({TagAbvm, TagBlwm})) \subseteq ufo.indicGlyphs
    /\ C20_Positioned(C20_Blocks({TagMark, TagMkmk}))
          \cap C20_Positioned(C20_Blocks({TagAbvm, TagBlwm})) = {}
    /\ C20_Blocks({TagAbvm, TagBlwm}) # {} => ufo.indicGlyphs # {}
    /\ \A block \in C20_Blocks({TagMark, TagMkmk, TagAbvm, TagBlwm}) :
          C20_Positioned({block}) # {}

\* A write with rules in mark or mkmk and with rules in abvm or blwm, for a
\* font with Indic glyphs and other glyphs that carry attaching anchors.
C20_Witness ==
    /\ writer.phase = "done"
    /\ C20_Positioned(C20_Blocks({TagMark, TagMkmk})) # {}
    /\ C20_Positioned(C20_Blocks({TagAbvm, TagBlwm})) # {}


\* Above, as the claim has it: by the known names, else by the y coordinate
\* against half the units per em, rounded down.
C21_Above(anchor) ==
    \/ anchor.name \in abvmAnchorNames
    \/ /\ anchor.name \notin blwmAnchorNames
       /\ anchor.y >= ufo.unitsPerEm \div 2

\* Position and mark class of the anchors of a rule.
C21_RuleMarks(rule) ==
    IF rule.Statement = "MarkLigPosStatement"
    THEN UNION {Range(rule.marks[c]) : c \in 1..Len(rule.marks)}
    ELSE Range(rule.marks)

\* The positioning rules of the feature with the tag.
C21_Rules(tag) ==
    UNION {UNION {{r \in Range(lookup.statements) :
                      r.Statement \in {"MarkBasePosStatement", "MarkMarkPosStatement",
                                       "MarkLigPosStatement"}} :
                  lookup \in Range(block.statements)} :
           block \in C20_Blocks({tag})}

\* The anchors of a glyph that take marks, after the unused ones are pruned.
C21_Anchors(glyphName) ==
    UNION {{a \in Range(writer.anchorLists[g].anchors) : ~a.isMark /\ a.key # <<>>} :
           g \in {h \in 1..Len(writer.anchorLists) :
                     writer.anchorLists[h].name = glyphName}}

\* Position and mark class of the anchors of a glyph that are above (below).
C21_GlyphMarks(anchorSet, above) ==
    {[x |-> a.x, y |-> a.y, markClass |-> ClassOf(writer.markClasses, a.key)] :
        a \in {b \in anchorSet : C21_Above(b) = above}}

\* C21: in abvm and blwm every anchor of an Indic glyph is above or below: a
\* known above name is above and a known below name below whatever y is, any
\* other name is above exactly when y >= unitsPerEm div 2; the abvm rules
\* hold only anchors that are above, the blwm rules only anchors that are
\* below, and each anchor without number is in the rules of its side.
C21_AboveOrBelow ==
    (writer.phase = "done" /\ writer.result = "True") =>
        /\ \A rule \in C21_Rules(TagAbvm) :
              C21_RuleMarks(rule) \subseteq C21_GlyphMarks(C21_Anchors(rule.glyph), TRUE)
        /\ \A rule \in C21_Rules(TagBlwm) :
              C21_RuleMarks(rule) \subseteq C21_GlyphMarks(C21_Anchors(rule.glyph), FALSE)
        /\ \A glyphName \in ufo.indicGlyphs :
              LET plain == {a \in C21_Anchors(glyphName) : a.number = NoNumber}
                  marks(tag) == UNION {C21_RuleMarks(r) :
                                    r \in {q \in C21_Rules(tag) : q.glyph = glyphName}}
              IN  /\ TagAbvm \in ufo.todo => C21_GlyphMarks(plain, TRUE) \subseteq marks(TagAbvm)
                  /\ TagBlwm \in ufo.todo => C21_GlyphMarks(plain, FALSE) \subseteq marks(TagBlwm)

\* An Indic glyph with a known above name under the threshold and a known
\* below name on it is in the abvm and blwm rules, and another Indic glyph is
\* in the abvm rules with an anchor of another name right on the threshold.
C21_Witness ==
    /\ writer.phase = "done" /\ writer.result = "True"
    /\ \E rule \in C21_Rules(TagAbvm) :
          \E a \in C21_Anchors(rule.glyph) :
              /\ a.name \in abvmAnchorNames /\ a.y < ufo.unitsPerEm \div 2
              /\ [x |-> a.x, y |-> a.y, markClass |-> ClassOf(writer.markClasses, a.key)]
                    \in C21_RuleMarks(rule)
    /\ \E rule \in C21_Rules(TagBlwm) :
          \E a \in C21_Anchors(rule.glyph) :
              /\ a.name \in blwmAnchorNames /\ a.y >= ufo.unitsPerEm \div 2
              /\ [x |-> a.x, y |-> a.y, markClass |-> ClassOf(writer.markClasses, a.key)]
                    \in C21_RuleMarks(rule)
    /\ \E rule \in C21_Rules(TagAbvm) :
          \E a \in C21_Anchors(rule.glyph) :
              /\ a.name \notin abvmAnchorNames \cup blwmAnchorNames
              /\ a.y = ufo.unitsPerEm \div 2
              /\ 2 * a.y < ufo.unitsPerEm
              /\ [x |-> a.x, y |-> a.y, markClass |-> ClassOf(writer.markClasses, a.key)]
                    \in C21_RuleMarks(rule)

\* The writer has pruned the unused anchors (_write has begun).
C29_Pruned ==
    /\ writer.phase \in {"classes", "done"}
    /\ writer.anchorPairs # {}

\* C29: the assertions of the rule builders hold.  After the pruning of the
\* unused anchors no glyph outside the mark glyphs has a mark anchor; once the
\* mark classes are made, every anchor with a key that is no mark anchor has
\* a mark class under its key; and no glyph comes twice under one mark anchor
\* name in the groups of the mark glyphs.
C29_AssertionsHold ==
    C29_Pruned =>
        LET lists == writer.anchorLists
            groups == GroupMarkGlyphsByAnchor(lists, writer.anchorPairs)
        IN  /\ \A g \in 1..Len(lists) :
                   lists[g].name \notin writer.markGlyphNames =>
                       \A a \in Range(lists[g].anchors) : ~a.isMark
            /\ writer.pending = <<>> =>
                   \A g \in 1..Len(lists) : \A a \in Range(lists[g].anchors) :
                       (~a.isMark /\ a.key # <<>>) =>
                           \E pair \in writer.markClasses : pair[1] = a.key
            /\ \A i, j \in 1..Len(groups) :
                   (/\ groups[i].markAnchorName = groups[j].markAnchorName
                    /\ groups[i].glyphName = groups[j].glyphName) => i = j

\* The writer has written features for a font in which a glyph has two
\* anchors of one mark anchor name, the pruning removed an anchor, and a glyph
\* outside the mark glyphs entered the rules.
C29_Witness ==
    /\ C29_Pruned
    /\ writer.result = "True"
    /\ \E g \in 1..Len(ufo.glyphs) :
           \E i, j \in 1..Len(ufo.glyphs[g].anchors) :
               /\ i # j
               /\ ufo.glyphs[g].anchors[i].name = ufo.glyphs[g].anchors[j].name
               /\ ufo.glyphs[g].anchors[i].name \in MarkAnchorNames(writer.anchorPairs)
    /\ writer.anchorLists # GetAnchorLists(ufo.glyphs)
    /\ \E g \in 1..Len(writer.anchorLists) :
           writer.anchorLists[g].name \notin writer.markGlyphNames

\* C30: once the mark classes are made, for every key the mark class the
\* context has under the key (the class the base anchors of the key attach
\* to) has every glyph among its members that carries the mark anchor of the
\* key, whatever mark classes the feature file had before.
C30_ClassHasEveryMark ==
    (C29_Pruned /\ writer.pending = <<>>) =>
        \A pair \in writer.markClasses :
            LET i == ClassIndex(feaFile.markClasses, pair[2])
                members == IF i = 0 THEN {}
                           ELSE {d.glyph : d \in Range(feaFile.markClasses[i].definitions)}
            IN  \A g \in 1..Len(writer.anchorLists) :
                    (\E a \in Range(writer.anchorLists[g].anchors) :
                        a.isMark /\ a.key = pair[1])
                        => writer.anchorLists[g].name \in members

\* The same for the writers that were given a feature file without mark
\* classes.
C30_FreshFile ==
    writer.given.markClasses = <<>> => C30_ClassHasEveryMark

====
